---- MODULE Spec2Model ----
(***************************************************************************)
(* A model of the cardutil clearing-file codec stack: the 1014-byte        *)
(* blocking layer, the VBS record framing, the IPM reader and the ISO 8583 *)
(* message codec.  Byte strings are sequences of integers 0..255, text     *)
(* strings are sequences of character codes, and an optional value (None   *)
(* in the source) is the empty sequence, a present value v being <<v>>.    *)
(***************************************************************************)
EXTENDS Integers, Sequences, FiniteSets, TLC

\* ------------------------------------------------------------------------
\* Bounds of the model
\* ------------------------------------------------------------------------
MaxWrites == 3
MaxRecs == 2
MaxTotal == 4100
MaxFields == 2

\* ------------------------------------------------------------------------
\* Program constants
\* ------------------------------------------------------------------------
BLOCK_DATA == 1012
BLOCK_SIZE == 1014
PAD_CHAR == 64
MAX_RECORD_LENGTH == 3000

VARIABLES
    file,             \* content of the underlying file object (io.BytesIO)
    remaining_chars,  \* Block1014.remaining_chars
    blocked,          \* the blocked flag given to VbsWriter and VbsReader
    wstate,           \* writer position: "open", "closed"
    payload,          \* bytes handed to Block1014.write so far (history)
    recs,             \* records handed to VbsWriter.write so far (history)
    tail,             \* bytes that follow the complete records in a reader's source
    input,            \* the stream handed to the one-shot block_1014
    nwrites,          \* number of Block1014.write calls so far (history)
    pos,              \* read position of the underlying file object
    buffer,           \* Unblock1014.buffer
    record_number,    \* VbsReader.record_number
    last_record,      \* VbsReader.last_record (optional)
    out,              \* records yielded by the reader so far
    rstate,           \* reader position: "none", "iter", "stop", "error", "resumed"
    err,              \* the error raised by the last reader step (optional)
    original,         \* the dictionary R as the caller built it
    caller_obj,       \* the caller's dictionary, as the last dumps left it
    enc,              \* the encoding given to dumps, loads, IpmWriter, IpmReader
    hexmode,          \* the hex_bitmap flag given to dumps and loads
    dumped,           \* the outcome of dumps(R) (optional)
    loaded,           \* the outcome of loads of the dumped bytes (optional)
    cstate,           \* codec position: "none", "dict", "dumped", "loaded"
    msg,              \* the byte string handed to loads
    redumped,         \* the outcome of dumps of the loaded dictionary (optional)
    pds_fields,       \* the PDSxxxx entries handed to _pds_to_de
    pds_outputs,      \* the fragments _pds_to_de returned (optional)
    pds_parsed,       \* the outcome of _pds_to_dict on each fragment, merged (optional)
    icc_data,         \* the DE55 bytes handed to _icc_to_dict
    icc_result,       \* the outcome of _icc_to_dict (optional)
    on_error,         \* the policy configured for DE55: "ERROR" or "WARN"
    bitmap16,         \* the 16 bitmap bytes handed to BitArray
    bit_list,         \* BitArray.tolist() of the bitmap (optional)
    bitmap_back,      \* BitArray.tobytes() after fromlist of that list (optional)
    table_id,         \* IpmParamReader.table_id
    table_index,      \* IpmParamReader.table_index
    param_config,     \* IpmParamReader.param_config
    param_exc,        \* class of the exception that IpmParamReader raised, "" when none
    default_bit_config, \* cardutil.config.config['bit_config'], the one dictionary of the module
    fstate            \* position of the function under test: "none", "build", "called", "done"

vars == <<file, remaining_chars, blocked, wstate, payload, recs, tail, input, nwrites,
          pos, buffer, record_number, last_record, out, rstate, err,
          original, caller_obj, enc, hexmode, dumped, loaded, cstate,
          msg, redumped, pds_fields, pds_outputs, pds_parsed, icc_data, icc_result, on_error,
          bitmap16, bit_list, bitmap_back, table_id, table_index, param_config,
          param_exc, default_bit_config, fstate>>

wvars == <<file, remaining_chars, blocked, wstate, payload, recs, tail, input, nwrites>>
rvars == <<pos, buffer, record_number, last_record, out, rstate, err>>
cvars == <<original, caller_obj, enc, hexmode, dumped, loaded, cstate>>
mvars == <<msg, redumped>>
dvars == <<pds_fields, pds_outputs, pds_parsed>>
ivars == <<icc_data, icc_result, on_error>>
bvars == <<bitmap16, bit_list, bitmap_back>>
fvars == <<dvars, ivars, bvars, fstate>>
pvars == <<table_id, table_index, param_config, param_exc>>
gvars == <<default_bit_config>>
xvars == <<mvars, fvars, pvars, gvars>>

\* ------------------------------------------------------------------------
\* Helpers: python slicing and optional values
\* ------------------------------------------------------------------------
None == <<>>
Some(v) == <<v>>

Min(a, b) == IF a < b THEN a ELSE b

\* s[:n] for n >= 0
Take(s, n) == SubSeq(s, 1, Min(n, Len(s)))

\* s[n:] for n >= 0
Drop(s, n) == SubSeq(s, Min(n, Len(s)) + 1, Len(s))

\* PAD_CHAR * n
Pad(n) == [i \in 1..n |-> PAD_CHAR]

\* a byte string of length n whose content depends on the position and seed
Bytes(seed, n) == [i \in 1..n |-> (seed + i) % 256]

\* struct.pack(">i", n): 4 bytes big endian, two's complement
\* (the sign is carried by the first byte; \div rounds down and % is non-negative)
pack_i(n) ==
    LET low == n % 16777216
        high == n \div 16777216
    IN  << IF high < 0 THEN high + 256 ELSE high,
           (low \div 65536) % 256, (low \div 256) % 256, low % 256 >>

\* struct.unpack(">i", b)[0] for a 4 byte string
unpack_i(b) ==
    (IF b[1] >= 128 THEN b[1] - 256 ELSE b[1]) * 16777216
        + b[2] * 65536 + b[3] * 256 + b[4]

\* ------------------------------------------------------------------------
\* Block1014
\* ------------------------------------------------------------------------
\* the "now write complete blocks" loop and the "write whatever is left" tail
RECURSIVE Block1014_write_rest(_, _)
Block1014_write_rest(f, b) ==
    IF Len(b) > BLOCK_DATA
    THEN Block1014_write_rest(f \o Take(b, BLOCK_DATA) \o Pad(2), Drop(b, BLOCK_DATA))
    ELSE [file |-> f \o b, remaining_chars |-> BLOCK_DATA - Len(b)]

\* Block1014.write on the state (f, rem)
Block1014_write(f, rem, b) ==
    IF Len(b) < rem
    THEN [file |-> f \o b, remaining_chars |-> rem - Len(b)]
    ELSE Block1014_write_rest(f \o Take(b, rem) \o Pad(2), Drop(b, rem))

\* a finalise that fills the window but forgets the two closing pad bytes
Block1014_finalise_unterminated(f, rem) ==
    [file |-> f \o Pad(rem), remaining_chars |-> BLOCK_DATA]

\* Block1014.finalise on the state (f, rem)
Block1014_finalise(f, rem) ==
    [file |-> f \o Pad(rem + 2), remaining_chars |-> BLOCK_DATA]

\* ------------------------------------------------------------------------
\* Unblock1014
\* ------------------------------------------------------------------------
\* a fill loop that keeps the two pad bytes of every block in the buffer
RECURSIVE Unblock1014_fill_keep_pad(_, _, _, _)
Unblock1014_fill_keep_pad(f, buf, p, bytes_to_read) ==
    IF bytes_to_read = 0 \/ Len(buf) <= bytes_to_read
    THEN LET block == SubSeq(f, p + 1, Min(p + BLOCK_SIZE, Len(f)))
         IN  IF Len(block) = 0
             THEN [buffer |-> buf, pos |-> p]
             ELSE Unblock1014_fill_keep_pad(f, buf \o block, p + Len(block), bytes_to_read)
    ELSE [buffer |-> buf, pos |-> p]

\* the fill loop of Unblock1014.read: the state is (buffer, position in file)
RECURSIVE Unblock1014_fill(_, _, _, _)
Unblock1014_fill(f, buf, p, bytes_to_read) ==
    IF bytes_to_read = 0 \/ Len(buf) <= bytes_to_read
    THEN LET block == SubSeq(f, p + 1, Min(p + BLOCK_SIZE, Len(f)))
         IN  IF Len(block) = 0
             THEN [buffer |-> buf, pos |-> p]
             ELSE Unblock1014_fill(f, buf \o Take(block, BLOCK_DATA), p + Len(block), bytes_to_read)
    ELSE [buffer |-> buf, pos |-> p]

\* Unblock1014.read(bytes_to_read), bytes_to_read > 0
Unblock1014_read(f, buf, p, bytes_to_read) ==
    LET filled == Unblock1014_fill(f, buf, p, bytes_to_read)
    IN  [data |-> Take(filled.buffer, bytes_to_read),
         buffer |-> Drop(filled.buffer, bytes_to_read),
         pos |-> filled.pos]

\* io.BytesIO.read(n) at position p
BytesIO_read(f, buf, p, n) ==
    LET data == SubSeq(f, Min(p, Len(f)) + 1, Min(p + n, Len(f)))
    IN  [data |-> data, buffer |-> buf, pos |-> Min(p, Len(f)) + Len(data)]

\* ------------------------------------------------------------------------
\* CardutilError and its subclasses
\* ------------------------------------------------------------------------
\* kwargs.get(k) is kept only when truthy: None, 0 and b'' leave the class default None
CardutilError(message, rn, ctx, ex) ==
    [message |-> message,
     record_number |-> IF rn = None \/ rn = Some(0) THEN None ELSE rn,
     binary_context_data |-> IF ctx = None \/ ctx = Some(<<>>) THEN None ELSE ctx,
     ex |-> ex]

\* ------------------------------------------------------------------------
\* VbsReader
\* ------------------------------------------------------------------------
\* self.vbs_data.read(n)
vbs_data_read(f, blk, buf, p, n) ==
    IF blk THEN Unblock1014_read(f, buf, p, n) ELSE BytesIO_read(f, buf, p, n)

\* a reader step that treats a cut header as a framing error
VbsReader_next_strict_header(f, blk, r) ==
    LET h == vbs_data_read(f, blk, r.buffer, r.pos, 4)
        r1 == [r EXCEPT !.pos = h.pos, !.buffer = h.buffer]
    IN  IF Len(h.data) = 0
        THEN [kind |-> "stop", reader |-> r1, record |-> <<>>, err |-> None]
        ELSE IF Len(h.data) # 4 \/ unpack_i(h.data) < 0 \/ unpack_i(h.data) > MAX_RECORD_LENGTH
        THEN [kind |-> "error", reader |-> r1, record |-> <<>>,
              err |-> Some(CardutilError("Invalid record length",
                                         Some(r.record_number), r.last_record, None))]
        ELSE IF unpack_i(h.data) = 0
        THEN [kind |-> "stop", reader |-> r1, record |-> <<>>, err |-> None]
        ELSE
        LET d == vbs_data_read(f, blk, r1.buffer, r1.pos, unpack_i(h.data))
            r2 == [r1 EXCEPT !.pos = d.pos, !.buffer = d.buffer]
        IN  IF Len(d.data) # unpack_i(h.data)
            THEN [kind |-> "error", reader |-> r2, record |-> <<>>,
                  err |-> Some(CardutilError("Unable to read complete record",
                                             Some(r.record_number), Some(h.data \o d.data), None))]
            ELSE [kind |-> "record",
                  reader |-> [r2 EXCEPT !.last_record = Some(h.data \o d.data),
                                        !.record_number = r.record_number + 1],
                  record |-> d.data, err |-> None]

\* a reader step that yields whatever payload it could read
VbsReader_next_short_record(f, blk, r) ==
    LET h == vbs_data_read(f, blk, r.buffer, r.pos, 4)
        r1 == [r EXCEPT !.pos = h.pos, !.buffer = h.buffer]
    IN  IF Len(h.data) # 4
        THEN [kind |-> "stop", reader |-> r1, record |-> <<>>, err |-> None]
        ELSE IF unpack_i(h.data) < 0 \/ unpack_i(h.data) > MAX_RECORD_LENGTH
        THEN [kind |-> "error", reader |-> r1, record |-> <<>>,
              err |-> Some(CardutilError("Invalid record length",
                                         Some(r.record_number), r.last_record, None))]
        ELSE IF unpack_i(h.data) = 0
        THEN [kind |-> "stop", reader |-> r1, record |-> <<>>, err |-> None]
        ELSE
        LET d == vbs_data_read(f, blk, r1.buffer, r1.pos, unpack_i(h.data))
            r2 == [r1 EXCEPT !.pos = d.pos, !.buffer = d.buffer]
        IN  [kind |-> "record",
             reader |-> [r2 EXCEPT !.last_record = Some(h.data \o d.data),
                                   !.record_number = r.record_number + 1],
             record |-> d.data, err |-> None]

\* VbsReader.__next__ on the reader r = [pos, buffer, record_number, last_record]
\* over the file f: the outcome kind is "record", "stop" or "error"
VbsReader_next(f, blk, r) ==
    LET h == vbs_data_read(f, blk, r.buffer, r.pos, 4)
        record_length_raw == h.data
        r1 == [r EXCEPT !.pos = h.pos, !.buffer = h.buffer]
    IN  IF Len(record_length_raw) # 4
        THEN [kind |-> "stop", reader |-> r1, record |-> <<>>, err |-> None]
        ELSE
        LET record_length == unpack_i(record_length_raw)
        IN  IF record_length < 0 \/ record_length > MAX_RECORD_LENGTH
            THEN [kind |-> "error", reader |-> r1, record |-> <<>>,
                  err |-> Some(CardutilError("Invalid record length",
                                             Some(r.record_number), r.last_record, None))]
            ELSE IF record_length = 0
            THEN [kind |-> "stop", reader |-> r1, record |-> <<>>, err |-> None]
            ELSE
            LET d == vbs_data_read(f, blk, r1.buffer, r1.pos, record_length)
                record == d.data
                r2 == [r1 EXCEPT !.pos = d.pos, !.buffer = d.buffer]
            IN  IF Len(record) # record_length
                THEN [kind |-> "error", reader |-> r2, record |-> <<>>,
                      err |-> Some(CardutilError("Unable to read complete record",
                                                 Some(r.record_number),
                                                 Some(record_length_raw \o record), None))]
                ELSE [kind |-> "record",
                      reader |-> [r2 EXCEPT !.last_record = Some(record_length_raw \o record),
                                            !.record_number = r.record_number + 1],
                      record |-> record, err |-> None]

\* VbsReader.__init__: class attributes record_number = 1, last_record = None
VbsReader_init == [pos |-> 0, buffer |-> <<>>, record_number |-> 1, last_record |-> None]

\* ------------------------------------------------------------------------
\* VbsWriter
\* ------------------------------------------------------------------------
\* self.out_file.write(b) on the writer w = [file, remaining_chars]
out_file_write(w, blk, b) ==
    IF blk THEN Block1014_write(w.file, w.remaining_chars, b)
    ELSE [file |-> w.file \o b, remaining_chars |-> w.remaining_chars]

\* a write whose length header counts the header itself
VbsWriter_write_inclusive_length(w, blk, record) ==
    out_file_write(out_file_write(w, blk, pack_i(Len(record) + 4)), blk, record)

\* VbsWriter.write(record)
VbsWriter_write(w, blk, record) ==
    out_file_write(out_file_write(w, blk, pack_i(Len(record))), blk, record)

\* VbsWriter.close(): the zero length record, then out_file.seek(0)
VbsWriter_close(w, blk) ==
    LET z == out_file_write(w, blk, pack_i(0))
    IN  IF blk THEN Block1014_finalise(z.file, z.remaining_chars) ELSE z

\* an __exit__ that finalises only when the block ended without an exception
VbsWriter_exit_clean_only(w, blk, exc_type) ==
    IF exc_type = None THEN VbsWriter_close(w, blk) ELSE w

\* VbsWriter.__exit__(exc_type, exc_val, exc_tb), inherited by IpmWriter:
\* close, whatever ended the block; returns None, so the exception goes on
VbsWriter_exit(w, blk, exc_type) == VbsWriter_close(w, blk)

\* VbsWriter.__init__
VbsWriter_init == [file |-> <<>>, remaining_chars |-> BLOCK_DATA]

\* VbsWriter.write_many(iterable)
RECURSIVE VbsWriter_write_many(_, _, _)
VbsWriter_write_many(w, blk, L) ==
    IF L = <<>> THEN w
    ELSE VbsWriter_write_many(VbsWriter_write(w, blk, Head(L)), blk, Tail(L))

\* vbs_list_to_bytes(byte_list, blocked=blk)
vbs_list_to_bytes(L, blk) ==
    VbsWriter_close(VbsWriter_write_many(VbsWriter_init, blk, L), blk).file

\* ------------------------------------------------------------------------
\* The one-shot block_1014 and unblock_1014
\* ------------------------------------------------------------------------
\* a blocking loop that does not fill the last, incomplete window
RECURSIVE block_1014_loop_no_fill(_, _, _)
block_1014_loop_no_fill(input_data, p, output_data) ==
    LET record == SubSeq(input_data, p + 1, Min(p + BLOCK_DATA, Len(input_data)))
    IN  IF Len(record) = 0
        THEN output_data
        ELSE block_1014_loop_no_fill(input_data, p + Len(record),
                                     output_data \o record \o Pad(2))

RECURSIVE block_1014_loop(_, _, _)
block_1014_loop(input_data, p, output_data) ==
    LET record == SubSeq(input_data, p + 1, Min(p + BLOCK_DATA, Len(input_data)))
    IN  IF Len(record) = 0
        THEN output_data
        ELSE block_1014_loop(input_data, p + Len(record),
                             output_data \o record \o Pad(BLOCK_DATA - Len(record)) \o Pad(2))

\* block_1014(input_data, output_data): the content of output_data afterwards
block_1014(input_data) == block_1014_loop(input_data, 0, <<>>)

\* an unblocking loop that looks at the last byte of a block only
RECURSIVE unblock_1014_loop_last_byte(_, _, _)
unblock_1014_loop_last_byte(input_data, p, output_data) ==
    LET record == SubSeq(input_data, p + 1, Min(p + BLOCK_SIZE, Len(input_data)))
    IN  IF Len(record) = 0
        THEN [ok |-> TRUE, output |-> output_data, err |-> None]
        ELSE IF Len(record) # BLOCK_SIZE
        THEN [ok |-> FALSE, output |-> output_data,
              err |-> Some(CardutilError("Invalid record size for 1014 blocked", None, None, None))]
        ELSE IF Drop(record, BLOCK_SIZE - 1) # Pad(1)
        THEN [ok |-> FALSE, output |-> output_data,
              err |-> Some(CardutilError("Invalid line ending for 1014 blocked", None, None, None))]
        ELSE unblock_1014_loop_last_byte(input_data, p + BLOCK_SIZE,
                                         output_data \o SubSeq(record, 1, BLOCK_DATA))

RECURSIVE unblock_1014_loop(_, _, _)
unblock_1014_loop(input_data, p, output_data) ==
    LET record == SubSeq(input_data, p + 1, Min(p + BLOCK_SIZE, Len(input_data)))
    IN  IF Len(record) = 0
        THEN [ok |-> TRUE, output |-> output_data, err |-> None]
        ELSE IF Len(record) # BLOCK_SIZE
        THEN [ok |-> FALSE, output |-> output_data,
              err |-> Some(CardutilError("Invalid record size for 1014 blocked", None, None, None))]
        ELSE IF Drop(record, BLOCK_SIZE - 2) # Pad(2)
        THEN [ok |-> FALSE, output |-> output_data,
              err |-> Some(CardutilError("Invalid line ending for 1014 blocked", None, None, None))]
        ELSE unblock_1014_loop(input_data, p + BLOCK_SIZE,
                               output_data \o SubSeq(record, 1, BLOCK_DATA))

\* unblock_1014(input_data, output_data): completion, output written, error raised
unblock_1014(input_data) == unblock_1014_loop(input_data, 0, <<>>)

\* ------------------------------------------------------------------------
\* The pipeline: a VbsWriter fills a file, a VbsReader iterates over it
\* ------------------------------------------------------------------------
\* record lengths offered to the writer: empty, short, lengths that end a
\* 1012 byte window exactly, straddle it, span several, and the reader's limit
RecLens == {0, 1, 1004, 1006, 1012, 1013, 2000, 3000, 3001}

RECURSIVE SumLen(_)
SumLen(L) == IF L = <<>> THEN 0 ELSE Len(Head(L)) + SumLen(Tail(L))

InitReader ==
    /\ pos = 0
    /\ buffer = <<>>
    /\ record_number = 1
    /\ last_record = None
    /\ out = <<>>
    /\ rstate = "none"
    /\ err = None

\* entries of config['bit_config'] used as the iso_config of the model; a key
\* the entry does not have reads as "" (what .get() answers with None)
BitCfg(type, length, pytype, processor) ==
    [field_type |-> type, field_length |-> length,
     field_python_type |-> pytype, field_processor |-> processor]

bit_config ==
    [bit \in {2, 3, 26, 48, 62, 71, 94} |->
        CASE bit = 2 -> BitCfg("LLVAR", 0, "", "")
          [] bit = 3 -> BitCfg("FIXED", 6, "", "")
          [] bit = 26 -> BitCfg("FIXED", 4, "int", "")
          [] bit = 48 -> BitCfg("LLLVAR", 0, "", "PDS")
          [] bit = 62 -> BitCfg("LLLVAR", 0, "", "PDS")
          [] bit = 71 -> BitCfg("FIXED", 8, "int", "")
          [] bit = 94 -> BitCfg("LLVAR", 0, "", "")]

\* no dictionary is being encoded or decoded
InitExtra ==
    /\ msg = <<>>
    /\ redumped = None
    /\ pds_fields = <<>>
    /\ pds_outputs = None
    /\ pds_parsed = None
    /\ icc_data = <<>>
    /\ icc_result = None
    /\ on_error = "ERROR"
    /\ bitmap16 = <<>>
    /\ bit_list = None
    /\ bitmap_back = None
    /\ table_id = <<>>
    /\ table_index = <<>>
    /\ param_config = <<>>
    /\ param_exc = ""
    /\ default_bit_config = bit_config
    /\ fstate = "none"

InitCodec ==
    /\ original = <<>>
    /\ caller_obj = <<>>
    /\ enc = ""
    /\ hexmode = FALSE
    /\ dumped = None
    /\ loaded = None
    /\ cstate = "none"
    /\ InitExtra

Init ==
    /\ blocked \in BOOLEAN
    /\ file = VbsWriter_init.file
    /\ remaining_chars = VbsWriter_init.remaining_chars
    /\ wstate = "open"
    /\ payload = <<>>
    /\ recs = <<>>
    /\ tail = <<>>
    /\ input = <<>>
    /\ nwrites = 0
    /\ InitReader
    /\ InitCodec

\* writer.write(record)
Write(n) ==
    /\ wstate = "open"
    /\ Len(recs) < MaxRecs
    /\ SumLen(recs) + n <= MaxTotal
    /\ LET record == Bytes(Len(recs) * 16, n)
           w == VbsWriter_write([file |-> file, remaining_chars |-> remaining_chars],
                                blocked, record)
       IN  /\ file' = w.file
           /\ remaining_chars' = w.remaining_chars
           /\ recs' = Append(recs, record)
    /\ UNCHANGED <<blocked, wstate, payload, tail, input, nwrites>>
    /\ UNCHANGED rvars
    /\ UNCHANGED cvars
    /\ UNCHANGED xvars

\* writer.close()
Close ==
    /\ wstate = "open"
    /\ LET w == VbsWriter_close([file |-> file, remaining_chars |-> remaining_chars], blocked)
       IN  /\ file' = w.file
           /\ remaining_chars' = w.remaining_chars
    /\ wstate' = "closed"
    /\ UNCHANGED <<blocked, payload, recs, tail, input, nwrites>>
    /\ UNCHANGED rvars
    /\ UNCHANGED cvars
    /\ UNCHANGED xvars

\* reader = VbsReader(file, blocked) over the closed writer's file, or over
\* a source file given as it is
ReaderOpen ==
    /\ wstate \in {"closed", "source"}
    /\ rstate = "none"
    /\ pos' = VbsReader_init.pos
    /\ buffer' = VbsReader_init.buffer
    /\ record_number' = VbsReader_init.record_number
    /\ last_record' = VbsReader_init.last_record
    /\ rstate' = "iter"
    /\ UNCHANGED <<out, err>>
    /\ UNCHANGED wvars
    /\ UNCHANGED cvars
    /\ UNCHANGED xvars

\* one step of list(reader): next(reader)
ReaderNext ==
    /\ rstate = "iter"
    /\ LET res == VbsReader_next(file, blocked,
                                  [pos |-> pos, buffer |-> buffer,
                                   record_number |-> record_number,
                                   last_record |-> last_record])
       IN  /\ pos' = res.reader.pos
           /\ buffer' = res.reader.buffer
           /\ record_number' = res.reader.record_number
           /\ last_record' = res.reader.last_record
           /\ out' = IF res.kind = "record" THEN Append(out, res.record) ELSE out
           /\ rstate' = IF res.kind = "record" THEN "iter" ELSE res.kind
           /\ err' = res.err
    /\ UNCHANGED wvars
    /\ UNCHANGED cvars
    /\ UNCHANGED xvars

Next ==
    \/ \E n \in RecLens : Write(n)
    \/ Close
    \/ ReaderOpen
    \/ ReaderNext

Spec == Init /\ [][Next]_vars

\* ------------------------------------------------------------------------
\* SpecBlock: byte strings written straight to a Block1014, then finalised
\* ------------------------------------------------------------------------
\* lengths offered to Block1014.write, given the space left in the window
WriteLens(rem) == {0, 1, rem, rem + 1, BLOCK_DATA - 1, BLOCK_DATA, BLOCK_DATA + 1, 2 * BLOCK_DATA + 1}

InitBlock ==
    /\ blocked = TRUE
    /\ file = <<>>
    /\ remaining_chars = BLOCK_DATA
    /\ wstate = "open"
    /\ payload = <<>>
    /\ recs = <<>>
    /\ tail = <<>>
    /\ input = <<>>
    /\ nwrites = 0
    /\ InitReader
    /\ InitCodec

\* Block1014.write(bytes_to_write)
BlockWrite(n) ==
    /\ wstate = "open"
    /\ nwrites < MaxWrites
    /\ Len(payload) + n <= MaxTotal
    /\ LET bytes_to_write == Bytes(Len(payload), n)
           w == Block1014_write(file, remaining_chars, bytes_to_write)
       IN  /\ file' = w.file
           /\ remaining_chars' = w.remaining_chars
           /\ payload' = payload \o bytes_to_write
    /\ nwrites' = nwrites + 1
    /\ UNCHANGED <<blocked, wstate, recs, tail, input>>
    /\ UNCHANGED rvars
    /\ UNCHANGED cvars
    /\ UNCHANGED xvars

\* Block1014.close() or Block1014.seek(0): finalise
BlockClose ==
    /\ wstate = "open"
    /\ LET w == Block1014_finalise(file, remaining_chars)
       IN  /\ file' = w.file
           /\ remaining_chars' = w.remaining_chars
    /\ wstate' = "closed"
    /\ UNCHANGED <<blocked, payload, recs, tail, input, nwrites>>
    /\ UNCHANGED rvars
    /\ UNCHANGED cvars
    /\ UNCHANGED xvars

NextBlock ==
    \/ \E n \in WriteLens(remaining_chars) : BlockWrite(n)
    \/ BlockClose

SpecBlock == InitBlock /\ [][NextBlock]_vars

\* ------------------------------------------------------------------------
\* SpecFn: the one-shot block_1014 followed by unblock_1014
\* ------------------------------------------------------------------------
StreamLens == {0, 1, 2, 3, BLOCK_DATA - 2, BLOCK_DATA - 1, BLOCK_DATA, BLOCK_DATA + 1,
               BLOCK_SIZE, 2 * BLOCK_DATA - 1, 2 * BLOCK_DATA, 2 * BLOCK_DATA + 1,
               3 * BLOCK_DATA}
StreamSeeds == {0, 63}

\* what happens to the blocked file before it is unblocked
\* ("extra": one more byte at the end; "badfirst": the first of the two
\* closing bytes of the first block is not 0x40)
Damages == {"none", "cut", "badpad", "extra", "badfirst"}
Damage(f, d) ==
    IF d = "none" \/ Len(f) < 2 THEN f
    ELSE IF d = "cut" THEN Take(f, Len(f) - 2)
    ELSE IF d = "extra" THEN f \o <<PAD_CHAR>>
    ELSE IF d = "badfirst"
    THEN [i \in 1..Len(f) |-> IF i = BLOCK_SIZE - 1 THEN 36 ELSE f[i]]
    ELSE Take(f, Len(f) - 2) \o <<36, 36>>

InitFn ==
    /\ \E n \in StreamLens, seed \in StreamSeeds : input = Bytes(seed, n)
    /\ blocked = TRUE
    /\ file = <<>>
    /\ remaining_chars = BLOCK_DATA
    /\ wstate = "input"
    /\ payload = <<>>
    /\ recs = <<>>
    /\ tail = <<>>
    /\ nwrites = 0
    /\ InitReader
    /\ InitCodec

\* block_1014(input, file)
Block ==
    /\ wstate = "input"
    /\ file' = block_1014(input)
    /\ wstate' = "blockedfile"
    /\ UNCHANGED <<remaining_chars, blocked, payload, recs, tail, input, nwrites>>
    /\ UNCHANGED rvars
    /\ UNCHANGED cvars
    /\ UNCHANGED xvars

\* unblock_1014(file, out) on the blocked file, as written or damaged
Unblock(d) ==
    /\ wstate = "blockedfile"
    /\ LET src == Damage(file, d)
           res == unblock_1014(src)
       IN  /\ file' = src
           /\ out' = <<res.output>>
           /\ rstate' = IF res.ok THEN "stop" ELSE "error"
           /\ err' = res.err
    /\ wstate' = "unblocked"
    /\ UNCHANGED <<remaining_chars, blocked, payload, recs, tail, input, nwrites>>
    /\ UNCHANGED <<pos, buffer, record_number, last_record>>
    /\ UNCHANGED cvars
    /\ UNCHANGED xvars

NextFn ==
    \/ Block
    \/ \E d \in Damages : Unblock(d)

SpecFn == InitFn /\ [][NextFn]_vars

\* ------------------------------------------------------------------------
\* SpecRead: a VbsReader over a source made of complete records and a tail
\* ------------------------------------------------------------------------
SrcLens == {1, 2, 5}

\* the lists of at most MaxRecs records with lengths in SrcLens
SrcLists ==
    UNION { { [i \in 1..k |-> Bytes(16 * (i - 1), lens[i])] : lens \in [1..k -> SrcLens] }
            : k \in 0..MaxRecs }

\* what follows the complete records: nothing, a cut header, the sentinel,
\* the sentinel with a record after it, a header whose payload is cut, a
\* negative length, a length over the limit
Tails ==
    { <<>>, <<0>>, <<0, 0, 0>>,
      pack_i(0), pack_i(0) \o Pad(2), pack_i(0) \o pack_i(1) \o <<7>>,
      pack_i(5) \o <<1, 2, 3, 4>>, pack_i(2) \o <<9>>, pack_i(MAX_RECORD_LENGTH),
      pack_i(-65536), pack_i(-65536) \o pack_i(1) \o <<7>>, pack_i(-1),
      pack_i(MAX_RECORD_LENGTH + 1) \o <<1>> }

InitRead ==
    /\ blocked \in BOOLEAN
    /\ recs \in SrcLists
    /\ tail \in Tails
    /\ LET w == VbsWriter_write_many(VbsWriter_init, blocked, recs)
       IN  /\ file = w.file \o tail
           /\ remaining_chars = w.remaining_chars
    /\ wstate = "source"
    /\ payload = <<>>
    /\ input = <<>>
    /\ nwrites = 0
    /\ InitReader
    /\ InitCodec

NextRead ==
    \/ ReaderOpen
    \/ ReaderNext

SpecRead == InitRead /\ [][NextRead]_vars

\* next(reader) once more, after a step ended the iteration or raised
ReaderNextAgain ==
    /\ rstate \in {"stop", "error", "resumed"}
    /\ \E res \in {VbsReader_next(file, blocked,
                                  [pos |-> pos, buffer |-> buffer,
                                   record_number |-> record_number,
                                   last_record |-> last_record])} :
          /\ pos' = res.reader.pos
          /\ buffer' = res.reader.buffer
          /\ record_number' = res.reader.record_number
          /\ last_record' = res.reader.last_record
          /\ out' = IF res.kind = "record" THEN Append(out, res.record) ELSE out
          /\ rstate' = IF res.kind = "record" \/ rstate = "resumed" THEN "resumed" ELSE res.kind
          /\ err' = res.err
    /\ UNCHANGED wvars
    /\ UNCHANGED cvars
    /\ UNCHANGED xvars

\* the reader called on after its end
NextAgain ==
    \/ ReaderOpen
    \/ ReaderNext
    \/ ReaderNextAgain

SpecAgain == InitRead /\ [][NextAgain]_vars

\* ------------------------------------------------------------------------
\* Text: strings are sequences of code points, python codecs, int and format
\* ------------------------------------------------------------------------
\* python s[a:b] for any integers a, b (negative indexes count from the end)
PySlice(s, a, b) ==
    LET n == Len(s)
        lo == IF a < 0 THEN (IF a + n < 0 THEN 0 ELSE a + n) ELSE Min(a, n)
        hi == IF b < 0 THEN (IF b + n < 0 THEN 0 ELSE b + n) ELSE Min(b, n)
    IN  SubSeq(s, lo + 1, hi)

\* the cp500 (EBCDIC) codec tables, indexed by code point + 1 and byte + 1
CP500_ENCODE ==
    <<
         0,   1,   2,   3,  55,  45,  46,  47,  22,   5,  37,  11,  12,  13,  14,  15,
        16,  17,  18,  19,  60,  61,  50,  38,  24,  25,  63,  39,  28,  29,  30,  31,
        64,  79, 127, 123,  91, 108,  80, 125,  77,  93,  92,  78, 107,  96,  75,  97,
       240, 241, 242, 243, 244, 245, 246, 247, 248, 249, 122,  94,  76, 126, 110, 111,
       124, 193, 194, 195, 196, 197, 198, 199, 200, 201, 209, 210, 211, 212, 213, 214,
       215, 216, 217, 226, 227, 228, 229, 230, 231, 232, 233,  74, 224,  90,  95, 109,
       121, 129, 130, 131, 132, 133, 134, 135, 136, 137, 145, 146, 147, 148, 149, 150,
       151, 152, 153, 162, 163, 164, 165, 166, 167, 168, 169, 192, 187, 208, 161,   7,
        32,  33,  34,  35,  36,  21,   6,  23,  40,  41,  42,  43,  44,   9,  10,  27,
        48,  49,  26,  51,  52,  53,  54,   8,  56,  57,  58,  59,   4,  20,  62, 255,
        65, 170, 176, 177, 159, 178, 106, 181, 189, 180, 154, 138, 186, 202, 175, 188,
       144, 143, 234, 250, 190, 160, 182, 179, 157, 218, 155, 139, 183, 184, 185, 171,
       100, 101,  98, 102,  99, 103, 158, 104, 116, 113, 114, 115, 120, 117, 118, 119,
       172, 105, 237, 238, 235, 239, 236, 191, 128, 253, 254, 251, 252, 173, 174,  89,
        68,  69,  66,  70,  67,  71, 156,  72,  84,  81,  82,  83,  88,  85,  86,  87,
       140,  73, 205, 206, 203, 207, 204, 225, 112, 221, 222, 219, 220, 141, 142, 223
    >>

CP500_DECODE ==
    <<
         0,   1,   2,   3, 156,   9, 134, 127, 151, 141, 142,  11,  12,  13,  14,  15,
        16,  17,  18,  19, 157, 133,   8, 135,  24,  25, 146, 143,  28,  29,  30,  31,
       128, 129, 130, 131, 132,  10,  23,  27, 136, 137, 138, 139, 140,   5,   6,   7,
       144, 145,  22, 147, 148, 149, 150,   4, 152, 153, 154, 155,  20,  21, 158,  26,
        32, 160, 226, 228, 224, 225, 227, 229, 231, 241,  91,  46,  60,  40,  43,  33,
        38, 233, 234, 235, 232, 237, 238, 239, 236, 223,  93,  36,  42,  41,  59,  94,
        45,  47, 194, 196, 192, 193, 195, 197, 199, 209, 166,  44,  37,  95,  62,  63,
       248, 201, 202, 203, 200, 205, 206, 207, 204,  96,  58,  35,  64,  39,  61,  34,
       216,  97,  98,  99, 100, 101, 102, 103, 104, 105, 171, 187, 240, 253, 254, 177,
       176, 106, 107, 108, 109, 110, 111, 112, 113, 114, 170, 186, 230, 184, 198, 164,
       181, 126, 115, 116, 117, 118, 119, 120, 121, 122, 161, 191, 208, 221, 222, 174,
       162, 163, 165, 183, 169, 167, 182, 188, 189, 190, 172, 124, 175, 168, 180, 215,
       123,  65,  66,  67,  68,  69,  70,  71,  72,  73, 173, 244, 246, 242, 243, 245,
       125,  74,  75,  76,  77,  78,  79,  80,  81,  82, 185, 251, 252, 249, 250, 255,
        92, 247,  83,  84,  85,  86,  87,  88,  89,  90, 178, 212, 214, 210, 211, 213,
        48,  49,  50,  51,  52,  53,  54,  55,  56,  57, 179, 219, 220, 217, 218, 159
    >>

Encodings == {"latin_1", "cp500", "ascii"}

\* str.encode(encoding): the bytes, or UnicodeEncodeError
encode(s, encoding) ==
    LET limit == IF encoding = "ascii" THEN 127 ELSE 255
    IN  IF \E i \in 1..Len(s) : s[i] > limit
        THEN [ok |-> FALSE, v |-> <<>>, exc |-> "UnicodeEncodeError"]
        ELSE [ok |-> TRUE,
              v |-> [i \in 1..Len(s) |->
                        IF encoding = "cp500" THEN CP500_ENCODE[s[i] + 1] ELSE s[i]],
              exc |-> ""]

\* bytes.decode(encoding): the string, or UnicodeDecodeError
decode(b, encoding) ==
    IF encoding = "ascii" /\ \E i \in 1..Len(b) : b[i] > 127
    THEN [ok |-> FALSE, v |-> <<>>, exc |-> "UnicodeDecodeError"]
    ELSE [ok |-> TRUE,
          v |-> [i \in 1..Len(b) |->
                    IF encoding = "cp500" THEN CP500_DECODE[b[i] + 1] ELSE b[i]],
          exc |-> ""]

IsDigit(c) == c >= 48 /\ c <= 57
IsSpace(c) == c \in {9, 10, 11, 12, 13, 32, 133, 160}

\* str(n) for n >= 0
RECURSIVE NatToStr(_)
NatToStr(n) == IF n < 10 THEN <<48 + n>> ELSE Append(NatToStr(n \div 10), 48 + (n % 10))

\* str(n)
IntToStr(n) == IF n < 0 THEN <<45>> \o NatToStr(0 - n) ELSE NatToStr(n)

\* format(n, '0<width>d'): sign first, then zeros up to the width; never cut
FormatInt(n, width) ==
    LET digits == NatToStr(IF n < 0 THEN 0 - n ELSE n)
        sign == IF n < 0 THEN <<45>> ELSE <<>>
        fill == width - Len(digits) - Len(sign)
    IN  sign \o [i \in 1..(IF fill > 0 THEN fill ELSE 0) |-> 48] \o digits

\* format(s, '<<width>'): left justified, spaces up to the width; never cut
FormatLeft(s, width) ==
    s \o [i \in 1..(IF width > Len(s) THEN width - Len(s) ELSE 0) |-> 32]

\* str.strip() as int() applies it
RECURSIVE LStrip(_)
LStrip(s) == IF s # <<>> /\ IsSpace(Head(s)) THEN LStrip(Tail(s)) ELSE s
RECURSIVE RStrip(_)
RStrip(s) == IF s # <<>> /\ IsSpace(s[Len(s)]) THEN RStrip(SubSeq(s, 1, Len(s) - 1)) ELSE s

\* the value of a string of digits and single underscores between digits
RECURSIVE DigitsValue(_, _)
DigitsValue(s, acc) ==
    IF s = <<>> THEN acc
    ELSE IF Head(s) = 95 THEN DigitsValue(Tail(s), acc)
    ELSE DigitsValue(Tail(s), acc * 10 + (Head(s) - 48))

\* digits with single underscores between them
WellFormedDigits(s) ==
    /\ s # <<>>
    /\ IsDigit(s[1]) /\ IsDigit(s[Len(s)])
    /\ \A i \in 1..Len(s) : IsDigit(s[i]) \/ (s[i] = 95 /\ i > 1 /\ s[i - 1] # 95)

\* int(s) for a string s: the value, or ValueError
ParseInt(s) ==
    LET t == RStrip(LStrip(s))
        signed == t # <<>> /\ t[1] \in {43, 45}
        body == IF signed THEN Tail(t) ELSE t
    IN  IF WellFormedDigits(body)
        THEN [ok |-> TRUE,
              v |-> IF signed /\ t[1] = 45 THEN 0 - DigitsValue(body, 0) ELSE DigitsValue(body, 0),
              exc |-> ""]
        ELSE [ok |-> FALSE, v |-> 0, exc |-> "ValueError"]

\* ------------------------------------------------------------------------
\* Python values and dictionaries
\* ------------------------------------------------------------------------
\* a value is tagged with its python type; the content is always a sequence
StrV(s) == [t |-> "str", v |-> s]
IntV(n) == [t |-> "int", v |-> <<n>>]
BytesV(b) == [t |-> "bytes", v |-> b]
NoneV == [t |-> "NoneType", v |-> <<>>]

\* bool(value)
Truthy(x) ==
    IF x.t = "int" THEN x.v[1] # 0
    ELSE IF x.t = "NoneType" THEN FALSE
    ELSE x.v # <<>>

EmptyDict == [k \in {} |-> NoneV]

\* d.get(key)
DictGet(d, key) == IF key \in DOMAIN d THEN d[key] ELSE NoneV

\* d[key] = value
DictSet(d, key, value) ==
    [k \in DOMAIN d \cup {key} |-> IF k = key THEN value ELSE d[k]]

\* d.update(e)
DictUpdate(d, e) ==
    [k \in DOMAIN d \cup DOMAIN e |-> IF k \in DOMAIN e THEN e[k] ELSE d[k]]

\* the dictionary keys 'MTI', 'DE' + str(bit), 'PDS' + tag
K_MTI == <<77, 84, 73>>
K_DE(bit) == <<68, 69>> \o IntToStr(bit)
K_PDS(tag) == <<80, 68, 83>> \o tag

\* string order, as sorted() compares strings
RECURSIVE StrLess(_, _)
StrLess(a, b) ==
    IF b = <<>> THEN FALSE
    ELSE IF a = <<>> THEN TRUE
    ELSE IF Head(a) # Head(b) THEN Head(a) < Head(b)
    ELSE StrLess(Tail(a), Tail(b))

\* sorted(S) for a set of strings
RECURSIVE SortedStrs(_)
SortedStrs(S) ==
    IF S = {} THEN <<>>
    ELSE LET m == CHOOSE x \in S : \A y \in S \ {x} : StrLess(x, y)
         IN  <<m>> \o SortedStrs(S \ {m})

\* sorted(S) for a set of integers
RECURSIVE SortedInts(_)
SortedInts(S) ==
    IF S = {} THEN <<>>
    ELSE LET m == CHOOSE x \in S : \A y \in S : x <= y
         IN  <<m>> \o SortedInts(S \ {m})

\* ------------------------------------------------------------------------
\* iso8583: results, bit configuration, field conversions
\* ------------------------------------------------------------------------
\* a call returns a value or raises; err is the CardutilError when one is raised
Return(v) == [ok |-> TRUE, v |-> v, exc |-> "", err |-> None]
Raise(exc) == [ok |-> FALSE, v |-> <<>>, exc |-> exc, err |-> None]
Iso8583DataError(message, ctx, ex) ==
    [ok |-> FALSE, v |-> <<>>, exc |-> "Iso8583DataError",
     err |-> Some(CardutilError(message, None, Some(ctx), ex))]

_get_field_length(cfg) ==
    IF cfg.field_type = "LLVAR" THEN 2
    ELSE IF cfg.field_type = "LLLVAR" THEN 3
    ELSE 0

\* int(x) for a python value x
PyInt(x) ==
    IF x.t = "int" THEN [ok |-> TRUE, v |-> x.v[1], exc |-> ""]
    ELSE IF x.t \notin {"str", "bytes"} THEN [ok |-> FALSE, v |-> 0, exc |-> "TypeError"]
    ELSE IF x.t = "bytes" /\ \E i \in 1..Len(x.v) : x.v[i] > 127
    THEN [ok |-> FALSE, v |-> 0, exc |-> "ValueError"]
    ELSE ParseInt(x.v)

\* format(int(field_data), '0' + str(field_length) + 'd') for the outcome n of int()
_pytype_to_string_int(n, cfg) ==
    IF n.ok THEN Return(StrV(FormatInt(n.v, cfg.field_length))) ELSE Raise(n.exc)

\* the int and long branch; no entry of bit_config is decimal or datetime
_pytype_to_string(field_data, cfg) ==
    IF cfg.field_python_type \in {"int", "long"}
    THEN _pytype_to_string_int(PyInt(field_data), cfg)
    ELSE Return(field_data)

\* int(field_data) for the outcome n of int()
_string_to_pytype_int(n) ==
    IF n.ok THEN Return(IntV(n.v)) ELSE Raise(n.exc)

\* a field that stays the string it was read as
_string_to_pytype_keep_string(field_data, cfg) ==
    Return(StrV(field_data))

\* the int and long branch; no entry of bit_config is decimal or datetime
_string_to_pytype(field_data, cfg) ==
    IF cfg.field_python_type \in {"int", "long"}
    THEN _string_to_pytype_int(ParseInt(field_data))
    ELSE Return(StrV(field_data))

\* output: the length prefix, then the value that was cut and encoded
_field_to_iso8583_join(prefix, body) ==
    IF body.ok THEN Return(prefix \o body.v) ELSE Raise(body.exc)

\* bytes go out as they are, text is left justified to the length and encoded
_field_to_iso8583_value(field_value, field_length, length_size, encoding) ==
    _field_to_iso8583_join(
        IF length_size > 0 THEN encode(FormatInt(field_length, length_size), encoding).v
        ELSE <<>>,
        IF field_value.t = "bytes"
        THEN [ok |-> TRUE, v |-> PySlice(field_value.v, 0, field_length), exc |-> ""]
        ELSE encode(FormatLeft(PySlice(field_value.v, 0, field_length), field_length), encoding))

\* an LLVAR or LLLVAR field takes the length of its value; a value that is
\* neither text nor bytes has no len() and no slice
_field_to_iso8583_length(cfg, converted, length_size, encoding) ==
    IF ~converted.ok THEN Raise(converted.exc)
    ELSE IF converted.v.t \notin {"str", "bytes"} THEN Raise("TypeError")
    ELSE _field_to_iso8583_value(converted.v,
                                 IF length_size > 0 THEN Len(converted.v.v) ELSE cfg.field_length,
                                 length_size, encoding)

_field_to_iso8583(cfg, field_value, encoding) ==
    _field_to_iso8583_length(cfg, _pytype_to_string(field_value, cfg),
                             _get_field_length(cfg), encoding)

RECURSIVE _pds_to_dict_loop(_, _, _, _)
\* the body of the while loop, given the outcome of int() on the length digits;
\* seen holds the values the pointer had at earlier iterations. What an
\* iteration does depends on the pointer alone, so a pointer that takes a
\* value again repeats for ever: the call never returns ("NonTermination")
_pds_to_dict_item(field_data, field_pointer, return_values, seen, pds_field_length) ==
    IF ~pds_field_length.ok THEN Raise(pds_field_length.exc)
    ELSE IF field_pointer + 7 + pds_field_length.v \in seen \cup {field_pointer}
    THEN Raise("NonTermination")
    ELSE _pds_to_dict_loop(
             field_data, field_pointer + 7 + pds_field_length.v,
             DictSet(return_values,
                     K_PDS(PySlice(field_data, field_pointer, field_pointer + 4)),
                     StrV(PySlice(field_data, field_pointer + 7,
                                  field_pointer + 7 + pds_field_length.v))),
             seen \cup {field_pointer})

\* the while loop of _pds_to_dict; the slices follow python for a pointer
\* below zero as well
_pds_to_dict_loop(field_data, field_pointer, return_values, seen) ==
    IF ~(field_pointer < Len(field_data)) THEN Return(return_values)
    ELSE _pds_to_dict_item(field_data, field_pointer, return_values, seen,
                           ParseInt(PySlice(field_data, field_pointer + 4, field_pointer + 7)))

_pds_to_dict(field_data) == _pds_to_dict_loop(field_data, 0, EmptyDict, {})

RECURSIVE _pds_to_de_loop(_, _, _, _)
\* a fragment is closed and the item that did not fit is forgotten
_pds_to_de_add_drop_item(dict_values, keys, output, outputs, add_output) ==
    IF Len(output) + Len(add_output) > 999
    THEN _pds_to_de_loop(dict_values, Tail(keys), <<>>, Append(outputs, output))
    ELSE _pds_to_de_loop(dict_values, Tail(keys), output \o add_output, outputs)

\* a fragment is closed when the next item would take it past 999 characters
_pds_to_de_add(dict_values, keys, output, outputs, add_output) ==
    IF Len(output) + Len(add_output) > 999
    THEN _pds_to_de_loop(dict_values, Tail(keys), add_output, Append(outputs, output))
    ELSE _pds_to_de_loop(dict_values, Tail(keys), output \o add_output, outputs)

\* the body of the for loop, given the outcome of int(key[3:])
_pds_to_de_item(dict_values, keys, output, outputs, tag) ==
    IF ~tag.ok THEN Raise(tag.exc)
    ELSE IF dict_values[Head(keys)].t # "str" THEN Raise("TypeError")
    ELSE _pds_to_de_add(dict_values, keys, output, outputs,
                        FormatInt(tag.v, 4) \o FormatInt(Len(dict_values[Head(keys)].v), 3)
                            \o dict_values[Head(keys)].v)

\* the for loop of _pds_to_de over the sorted keys
_pds_to_de_loop(dict_values, keys, output, outputs) ==
    IF keys = <<>>
    THEN Return(IF output # <<>> THEN Append(outputs, output) ELSE outputs)
    ELSE _pds_to_de_item(dict_values, keys, output, outputs,
                         ParseInt(PySlice(Head(keys), 3, Len(Head(keys)))))

\* PDS values are strings here; any other value has no len() or is not text
_pds_to_de(dict_values) ==
    _pds_to_de_loop(dict_values,
                    SortedStrs({key \in DOMAIN dict_values : PySlice(key, 0, 3) = <<80, 68, 83>>}),
                    <<>>, <<>>)

\* ------------------------------------------------------------------------
\* iso8583: bitmap
\* ------------------------------------------------------------------------
\* BitArray.bitstring_to_bytes: the value of the bit string, most significant
\* byte first, without its leading zero bytes
RECURSIVE StripZeroBytes(_)
StripZeroBytes(b) == IF b # <<>> /\ Head(b) = 0 THEN StripZeroBytes(Tail(b)) ELSE b

BitWeight(k) == CASE k = 0 -> 128 [] k = 1 -> 64 [] k = 2 -> 32 [] k = 3 -> 16
                  [] k = 4 -> 8 [] k = 5 -> 4 [] k = 6 -> 2 [] k = 7 -> 1

\* the byte that the bits 8i-7 .. 8i of the list make
BitsToByte(bits, i) ==
    (IF bits[8 * i - 7] THEN 128 ELSE 0) + (IF bits[8 * i - 6] THEN 64 ELSE 0)
        + (IF bits[8 * i - 5] THEN 32 ELSE 0) + (IF bits[8 * i - 4] THEN 16 ELSE 0)
        + (IF bits[8 * i - 3] THEN 8 ELSE 0) + (IF bits[8 * i - 2] THEN 4 ELSE 0)
        + (IF bits[8 * i - 1] THEN 2 ELSE 0) + (IF bits[8 * i] THEN 1 ELSE 0)

\* BitArray.fromlist then tobytes; bits is the list bitmap_values, from 1
BitArray_fromlist(bits) ==
    StripZeroBytes([i \in 1..(Len(bits) \div 8) |-> BitsToByte(bits, i)])

\* BitArray.fromlist then tobytes of src/src/cardutil/BitArray.py:
\* int(binary_value, 2).to_bytes(len(binary_value) // 8, byteorder='big')
BitArray_fromlist_to_bytes(bits) == [i \in 1..(Len(bits) \div 8) |-> BitsToByte(bits, i)]

\* BitArray.frombytes then tolist: bit n of the bitmap is at index n
BitArray_tolist(b) ==
    [n \in 1..(8 * Len(b)) |->
        (b[((n - 1) \div 8) + 1] \div BitWeight((n - 1) % 8)) % 2 = 1]

HexDigit(n) == IF n < 10 THEN 48 + n ELSE 87 + n

\* binascii.hexlify
hexlify(b) ==
    [i \in 1..(2 * Len(b)) |->
        IF i % 2 = 1 THEN HexDigit(b[(i + 1) \div 2] \div 16) ELSE HexDigit(b[i \div 2] % 16)]

IsHexDigit(c) == IsDigit(c) \/ (c >= 65 /\ c <= 70) \/ (c >= 97 /\ c <= 102)
HexValue(c) == IF IsDigit(c) THEN c - 48 ELSE IF c >= 97 THEN c - 87 ELSE c - 55

\* binascii.unhexlify: the bytes, or binascii.Error
unhexlify(h) ==
    IF Len(h) % 2 = 1 \/ \E i \in 1..Len(h) : ~IsHexDigit(h[i])
    THEN Raise("binascii.Error")
    ELSE Return([i \in 1..(Len(h) \div 2) |-> 16 * HexValue(h[2 * i - 1]) + HexValue(h[2 * i])])

\* ------------------------------------------------------------------------
\* iso8583: encode
\* ------------------------------------------------------------------------
\* a result of _dict_to_iso8583 with the caller's dictionary as the call left it
Encoded(r, message) ==
    [ok |-> r.ok, v |-> r.v, exc |-> r.exc, err |-> r.err, message |-> message]

\* the loop that gives each fragment of _pds_to_de the next PDS data element
RECURSIVE _dict_to_iso8583_pds(_, _, _)
_dict_to_iso8583_pds(message, fragments, de_pds_fields) ==
    IF fragments = <<>> THEN Encoded(Return(<<>>), message)
    ELSE IF de_pds_fields = <<>> THEN Encoded(Raise("IndexError"), message)
    ELSE _dict_to_iso8583_pds(DictSet(message, K_DE(Head(de_pds_fields)), StrV(Head(fragments))),
                              Tail(fragments), Tail(de_pds_fields))

\* the test of presence without its "== 0" half: a zero counts as missing
FieldValuePresent_truthy_only(value) == Truthy(value)

\* message.get('DE' + str(bit)) or message.get('DE' + str(bit)) == 0
FieldValuePresent(value) == Truthy(value) \/ (value.t = "int" /\ value.v[1] = 0)
FieldPresent(message, bit) == FieldValuePresent(DictGet(message, K_DE(bit)))

RECURSIVE _dict_to_iso8583_bits(_, _, _, _, _, _)
\* a loop body that puts the encoded field in front of the data so far
_dict_to_iso8583_bit_prepend(message, cfg, encoding, bits, set_bits, output_data, field) ==
    IF ~field.ok THEN Raise(field.exc)
    ELSE _dict_to_iso8583_bits(message, cfg, encoding, Tail(bits),
                               set_bits \cup {Head(bits)}, field.v \o output_data)

\* the body of the loop for a bit that is present, given its encoded field
_dict_to_iso8583_bit(message, cfg, encoding, bits, set_bits, output_data, field) ==
    IF ~field.ok THEN Raise(field.exc)
    ELSE _dict_to_iso8583_bits(message, cfg, encoding, Tail(bits),
                               set_bits \cup {Head(bits)}, output_data \o field.v)

\* the loop over range(2, 128): the bits set and the field data, or the first failure
_dict_to_iso8583_bits(message, cfg, encoding, bits, set_bits, output_data) ==
    IF bits = <<>> THEN Return([bits |-> set_bits, data |-> output_data])
    ELSE IF Head(bits) \notin DOMAIN cfg THEN Raise("KeyError")
    ELSE _dict_to_iso8583_bit(message, cfg, encoding, bits, set_bits, output_data,
                              _field_to_iso8583(cfg[Head(bits)],
                                                DictGet(message, K_DE(Head(bits))), encoding))

\* the bitmap as it goes out
_dict_to_iso8583_bitmap(binary_bitmap, hex_bitmap) ==
    IF hex_bitmap THEN hexlify(binary_bitmap) ELSE binary_bitmap

\* output_string = mti + bitmap + output_data
_dict_to_iso8583_join(message, mti, bitmap, output_data) ==
    IF ~mti.ok THEN Encoded(Raise(mti.exc), message)
    ELSE Encoded(Return(mti.v \o bitmap \o output_data), message)

\* the bitmap and the MTI, given the outcome of the loop over the bits
_dict_to_iso8583_output(message, MTI, encoding, hex_bitmap, fields) ==
    IF ~fields.ok THEN Encoded(Raise(fields.exc), message)
    ELSE IF Truthy(MTI) /\ MTI.t # "str" THEN Encoded(Raise("AttributeError"), message)
    ELSE _dict_to_iso8583_join(
             message,
             IF Truthy(MTI) THEN encode(MTI.v, encoding) ELSE [ok |-> TRUE, v |-> <<>>, exc |-> ""],
             _dict_to_iso8583_bitmap(
                 BitArray_fromlist([n \in 1..128 |-> n = 1 \/ n \in fields.v.bits]), hex_bitmap),
             fields.v.data)

\* the loop over the bits, given the dictionary with the fragments put in
_dict_to_iso8583_fields(cfg, encoding, hex_bitmap, expanded) ==
    IF ~expanded.ok THEN expanded
    ELSE _dict_to_iso8583_output(
             expanded.message, DictGet(expanded.message, K_MTI), encoding, hex_bitmap,
             _dict_to_iso8583_bits(
                 expanded.message, cfg, encoding,
                 SortedInts({bit \in 2..127 : FieldPresent(expanded.message, bit)}), {}, <<>>))

\* the fragments go to the PDS data elements in ascending order of bit
_dict_to_iso8583_expand(message, cfg, encoding, hex_bitmap, fragments) ==
    IF ~fragments.ok THEN Encoded(Raise(fragments.exc), message)
    ELSE _dict_to_iso8583_fields(
             cfg, encoding, hex_bitmap,
             _dict_to_iso8583_pds(
                 message, fragments.v,
                 SortedInts({bit \in DOMAIN cfg : cfg[bit].field_processor = "PDS"})))

_dict_to_iso8583(message, cfg, encoding, hex_bitmap) ==
    _dict_to_iso8583_expand(message, cfg, encoding, hex_bitmap, _pds_to_de(message))

\* dumps; no encoding given is DEFAULT_ENCODING, no iso_config is config['bit_config']
dumps(obj, encoding, iso_config, hex_bitmap) ==
    _dict_to_iso8583(obj, IF DOMAIN iso_config = {} THEN bit_config ELSE iso_config,
                     IF encoding = "" THEN "latin_1" ELSE encoding, hex_bitmap)

\* ------------------------------------------------------------------------
\* iso8583: decode
\* ------------------------------------------------------------------------
\* the values of a PDS data element: the element itself, then its fields
_iso8583_to_field_pds(bit, value, increment, pds) ==
    IF ~pds.ok THEN Raise(pds.exc)
    ELSE Return([values |-> DictUpdate(DictSet(EmptyDict, K_DE(bit), value), pds.v),
                 increment |-> increment])

\* return_values and the increment, given the outcome of _string_to_pytype
_iso8583_to_field_typed(bit, cfg, message_data, field_data, increment, typed) ==
    IF ~typed.ok
    THEN Iso8583DataError("Unable to convert DE" \o ToString(bit) \o " field to python type",
                          message_data, Some(typed.exc))
    ELSE IF cfg.field_processor = "PDS"
    THEN _iso8583_to_field_pds(bit, typed.v, increment, _pds_to_dict(field_data))
    ELSE Return([values |-> DictSet(EmptyDict, K_DE(bit), typed.v), increment |-> increment])

\* the native value, given the outcome of decoding the field data
_iso8583_to_field_decoded(bit, cfg, message_data, increment, field_data) ==
    IF ~field_data.ok
    THEN Iso8583DataError("Unable to decode DE" \o ToString(bit) \o " field value",
                          message_data, Some(field_data.exc))
    ELSE _iso8583_to_field_typed(bit, cfg, message_data, field_data.v, increment,
                                 _string_to_pytype(field_data.v, cfg))

\* field_data = message_data[length_size:length_size + field_length], decoded
_iso8583_to_field_data(bit, cfg, message_data, encoding, length_size, field_length) ==
    _iso8583_to_field_decoded(
        bit, cfg, message_data, field_length + length_size,
        decode(PySlice(message_data, length_size, length_size + field_length), encoding))

\* field_length = int(field_length_string), given the outcome of int()
_iso8583_to_field_parsed(bit, cfg, message_data, encoding, length_size, parsed_length) ==
    IF ~parsed_length.ok
    THEN Iso8583DataError("Invalid field length DE" \o ToString(bit),
                          message_data, Some(parsed_length.exc))
    ELSE _iso8583_to_field_data(bit, cfg, message_data, encoding, length_size, parsed_length.v)

\* the length digits, given the outcome of decoding them
_iso8583_to_field_length(bit, cfg, message_data, encoding, length_size, field_length_string) ==
    IF ~field_length_string.ok
    THEN Iso8583DataError("Unable to decode DE" \o ToString(bit) \o " field length",
                          message_data, Some(field_length_string.exc))
    ELSE _iso8583_to_field_parsed(bit, cfg, message_data, encoding, length_size,
                                  ParseInt(field_length_string.v))

\* a FIXED field has the length of its configuration, an LLVAR or LLLVAR
\* field the length its digits say
_iso8583_to_field_sized(bit, cfg, message_data, encoding, length_size) ==
    IF length_size > 0
    THEN _iso8583_to_field_length(bit, cfg, message_data, encoding, length_size,
                                  decode(PySlice(message_data, 0, length_size), encoding))
    ELSE _iso8583_to_field_data(bit, cfg, message_data, encoding, length_size, cfg.field_length)

_iso8583_to_field(bit, cfg, message_data, encoding) ==
    _iso8583_to_field_sized(bit, cfg, message_data, encoding, _get_field_length(cfg))

RECURSIVE _iso8583_to_dict_bits(_, _, _, _, _, _)
\* the body of the loop for a bit that is set, given its decoded field
_iso8583_to_dict_bit(bits, cfg, message_data, encoding, message_pointer, return_values, field) ==
    IF ~field.ok THEN field
    ELSE _iso8583_to_dict_bits(Tail(bits), cfg, message_data, encoding,
                               message_pointer + field.v.increment,
                               DictUpdate(return_values, field.v.values))

\* the loop over range(2, 128) for the bits the bitmap has set
_iso8583_to_dict_bits(bits, cfg, message_data, encoding, message_pointer, return_values) ==
    IF bits = <<>> THEN Return([values |-> return_values, pointer |-> message_pointer])
    ELSE IF Head(bits) \notin DOMAIN cfg THEN Raise("KeyError")
    ELSE _iso8583_to_dict_bit(
             bits, cfg, message_data, encoding, message_pointer, return_values,
             _iso8583_to_field(Head(bits), cfg[Head(bits)],
                               PySlice(message_data, message_pointer, Len(message_data)),
                               encoding))

\* all of the message data has to be consumed
_iso8583_to_dict_check(message, message_length, fields) ==
    IF ~fields.ok THEN fields
    ELSE IF fields.v.pointer # message_length
    THEN Iso8583DataError("Message data not correct length. Bitmap indicates len="
                              \o ToString(fields.v.pointer) \o ", message is len="
                              \o ToString(message_length),
                          message, None)
    ELSE Return(fields.v.values)

\* the bits 2..127 that the list of _get_bitmap_list has set
SetBits(bitmap_list) == SortedInts({bit \in 2..127 : bitmap_list[bit]})

\* the MTI and the fields, given the outcome of decoding the MTI
_iso8583_to_dict_mti(message, cfg, encoding, bitmap_size, binary_bitmap, message_type_indicator) ==
    IF ~message_type_indicator.ok
    THEN Iso8583DataError("Failed decoding MTI field", message, Some(message_type_indicator.exc))
    ELSE _iso8583_to_dict_check(
             message, Len(message) - 4 - bitmap_size,
             _iso8583_to_dict_bits(SetBits(BitArray_tolist(binary_bitmap)), cfg,
                                   SubSeq(message, 5 + bitmap_size, Len(message)), encoding, 0,
                                   DictSet(EmptyDict, K_MTI, StrV(message_type_indicator.v))))

\* binascii.Error of a hex bitmap is not caught
_iso8583_to_dict_bitmap(message, cfg, encoding, bitmap_size, binary_bitmap) ==
    IF ~binary_bitmap.ok THEN Raise(binary_bitmap.exc)
    ELSE _iso8583_to_dict_mti(message, cfg, encoding, bitmap_size, binary_bitmap.v,
                              decode(SubSeq(message, 1, 4), encoding))

\* struct.unpack of "4s16s<n>s" or "4s32s<n>s" fails when n is negative
_iso8583_to_dict_unpack(message, cfg, encoding, hex_bitmap, bitmap_size) ==
    IF Len(message) - 4 - bitmap_size < 0
    THEN Iso8583DataError("Failed unpacking bitmap values", message, Some("struct.error"))
    ELSE _iso8583_to_dict_bitmap(
             message, cfg, encoding, bitmap_size,
             IF hex_bitmap THEN unhexlify(SubSeq(message, 5, 4 + bitmap_size))
             ELSE Return(SubSeq(message, 5, 4 + bitmap_size)))

_iso8583_to_dict(message, cfg, encoding, hex_bitmap) ==
    _iso8583_to_dict_unpack(message, cfg, encoding, hex_bitmap, IF hex_bitmap THEN 32 ELSE 16)

\* loads; no encoding given is DEFAULT_ENCODING, no iso_config is config['bit_config']
loads(b, encoding, iso_config, hex_bitmap) ==
    _iso8583_to_dict(b, IF DOMAIN iso_config = {} THEN bit_config ELSE iso_config,
                     IF encoding = "" THEN "latin_1" ELSE encoding, hex_bitmap)

\* ------------------------------------------------------------------------
\* IpmReader and IpmWriter
\* ------------------------------------------------------------------------
\* a CardutilError of the codec is wrapped, any other exception of the codec
\* leaves as it is
IpmReader_next_output(vbs, output) ==
    IF output.ok
    THEN [kind |-> "record", reader |-> vbs.reader, record |-> output.v, err |-> None]
    ELSE IF output.exc = "Iso8583DataError"
    THEN [kind |-> "codec_error", reader |-> vbs.reader, record |-> <<>>,
          err |-> Some(CardutilError("Error while loading ISO8583 record",
                                     Some(vbs.reader.record_number),
                                     vbs.reader.last_record,
                                     Some(output.err[1])))]
    ELSE [kind |-> output.exc, reader |-> vbs.reader, record |-> <<>>, err |-> None]

\* iso8583.loads of the VBS record, when VbsReader.__next__ returned one
IpmReader_next_loads(vbs, encoding, iso_config) ==
    IF vbs.kind # "record" THEN vbs
    ELSE IpmReader_next_output(vbs, loads(vbs.record, encoding, iso_config, FALSE))

\* IpmReader.__next__
IpmReader_next(f, blk, r, encoding, iso_config) ==
    IpmReader_next_loads(VbsReader_next(f, blk, r), encoding, iso_config)

\* VbsWriter.write of the bytes of dumps; when dumps raises nothing is written
IpmWriter_write_record(w, blk, r) ==
    IF r.ok THEN [ok |-> TRUE, writer |-> VbsWriter_write(w, blk, r.v), record |-> r.v]
    ELSE [ok |-> FALSE, writer |-> w, record |-> <<>>]

\* IpmWriter.write(obj)
IpmWriter_write(w, blk, o, encoding, iso_config) ==
    IpmWriter_write_record(w, blk, dumps(o, encoding, iso_config, FALSE))

\* ------------------------------------------------------------------------
\* SpecIso: a dictionary is built, handed to dumps, and the bytes to loads
\* ------------------------------------------------------------------------
\* a string of n copies of the character c
Rep(c, n) == [i \in 1..n |-> c]

\* the values offered for 'MTI'
MtiValues == {StrV(<<49, 49, 52, 52>>), StrV(<<49, 49>>)}

\* the key and value pairs offered for data elements and PDS fields
FieldItems ==
    {<<K_DE(2), StrV(<<49, 50, 51>>)>>, <<K_DE(2), StrV(<<>>)>>, <<K_DE(2), NoneV>>,
     <<K_DE(2), StrV(Rep(49, 99))>>, <<K_DE(2), StrV(Rep(49, 100))>>,
     <<K_DE(2), StrV(<<233>>)>>,
     <<K_DE(3), StrV(<<49, 50, 51, 52, 53, 54>>)>>, <<K_DE(3), StrV(<<49, 50>>)>>,
     <<K_DE(3), StrV(<<49, 50, 51, 52, 53, 54, 55, 56>>)>>, <<K_DE(3), IntV(0)>>,
     <<K_DE(26), IntV(42)>>, <<K_DE(26), StrV(<<48, 48, 52, 50>>)>>, <<K_DE(26), IntV(0)>>,
     <<K_DE(26), IntV(12345)>>, <<K_DE(26), IntV(-5)>>,
     <<K_DE(71), IntV(12345678)>>,
     <<K_DE(94), StrV(<<97, 98, 99>>)>>,
     <<K_DE(48), StrV(<<122, 122, 122>>)>>,
     <<K_PDS(<<48, 48, 48, 49>>), StrV(<<97, 98, 99>>)>>,
     <<K_PDS(<<48, 48, 48, 49>>), StrV(Rep(97, 992))>>,
     <<K_PDS(<<48, 48, 48, 50>>), StrV(<<>>)>>,
     <<K_PDS(<<48, 48, 48, 50>>), StrV(Rep(98, 900))>>,
     <<K_PDS(<<48, 48, 48, 51>>), StrV(Rep(99, 993))>>,
     <<K_PDS(<<48, 48, 50, 48>>), StrV(Rep(100, 900))>>}

InitIso ==
    /\ original = EmptyDict
    /\ caller_obj = EmptyDict
    /\ enc \in Encodings
    /\ hexmode \in BOOLEAN
    /\ dumped = None
    /\ loaded = None
    /\ cstate = "dict"
    /\ InitExtra
    /\ blocked = FALSE
    /\ file = <<>>
    /\ remaining_chars = BLOCK_DATA
    /\ wstate = "none"
    /\ payload = <<>>
    /\ recs = <<>>
    /\ tail = <<>>
    /\ input = <<>>
    /\ nwrites = 0
    /\ InitReader

\* R[key] = value
SetItem(key, value) ==
    /\ cstate = "dict"
    /\ key \notin DOMAIN original
    /\ key = K_MTI \/ Cardinality(DOMAIN original \ {K_MTI}) < MaxFields
    /\ original' = DictSet(original, key, value)
    /\ caller_obj' = DictSet(caller_obj, key, value)
    /\ UNCHANGED <<enc, hexmode, dumped, loaded, cstate>>
    /\ UNCHANGED wvars
    /\ UNCHANGED rvars
    /\ UNCHANGED xvars

\* message = dumps(R, encoding, iso_config, hex_bitmap)
Dumps ==
    /\ cstate = "dict"
    /\ \E r \in {dumps(caller_obj, enc, bit_config, hexmode)} :
          /\ dumped' = Some([ok |-> r.ok, v |-> r.v, exc |-> r.exc, err |-> r.err])
          /\ caller_obj' = r.message
    /\ cstate' = "dumped"
    /\ UNCHANGED <<original, enc, hexmode, loaded>>
    /\ UNCHANGED wvars
    /\ UNCHANGED rvars
    /\ UNCHANGED xvars

\* loads(message, encoding, iso_config, hex_bitmap)
Loads ==
    /\ cstate = "dumped"
    /\ dumped[1].ok
    /\ loaded' = Some(loads(dumped[1].v, enc, bit_config, hexmode))
    /\ cstate' = "loaded"
    /\ UNCHANGED <<original, caller_obj, enc, hexmode, dumped>>
    /\ UNCHANGED wvars
    /\ UNCHANGED rvars
    /\ UNCHANGED xvars

NextIso ==
    \/ \E value \in MtiValues : SetItem(K_MTI, value)
    \/ \E item \in FieldItems : SetItem(item[1], item[2])
    \/ Dumps
    \/ Loads

SpecIso == InitIso /\ [][NextIso]_vars

\* ------------------------------------------------------------------------
\* SpecIpm: an IPM file of written and of foreign records, read by IpmReader
\* ------------------------------------------------------------------------
\* the dictionaries handed to IpmWriter.write
IpmObjs ==
    {DictSet(DictSet(EmptyDict, K_MTI, StrV(<<49, 49, 52, 52>>)), K_DE(2), StrV(<<49, 50, 51>>)),
     DictSet(DictSet(DictSet(EmptyDict, K_MTI, StrV(<<49, 50, 52, 48>>)), K_DE(26), IntV(42)),
             K_PDS(<<48, 48, 48, 49>>), StrV(<<97, 98, 99>>)),
     DictSet(DictSet(EmptyDict, K_MTI, StrV(<<49, 49, 52, 52>>)), K_DE(94), StrV(<<233>>))}

\* 16 bytes of bitmap with the given first byte
Bitmap16(first) == <<first>> \o [i \in 1..15 |-> 0]

\* records that did not come from dumps: too short for a bitmap, a byte more
\* than the bitmap announces, a length prefix that is no number, a data
\* element the configuration does not have
ForeignRecords ==
    {<<98, 97, 100>>,
     <<49, 49, 52, 52>> \o Bitmap16(192) \o <<48, 51, 49, 50, 51, 57>>,
     <<49, 49, 52, 52>> \o Bitmap16(192) \o <<120, 120, 49, 50, 51>>,
     <<49, 49, 52, 52>> \o Bitmap16(136) \o <<120>>}

InitIpm ==
    /\ blocked \in BOOLEAN
    /\ enc \in {"", "cp500", "ascii"}
    /\ file = VbsWriter_init.file
    /\ remaining_chars = VbsWriter_init.remaining_chars
    /\ wstate = "open"
    /\ payload = <<>>
    /\ recs = <<>>
    /\ tail = <<>>
    /\ input = <<>>
    /\ nwrites = 0
    /\ InitReader
    /\ original = <<>>
    /\ caller_obj = <<>>
    /\ hexmode = FALSE
    /\ dumped = None
    /\ loaded = None
    /\ cstate = "none"
    /\ InitExtra

\* IpmWriter(file, encoding, blocked=blocked).write(o)
IpmWrite(o) ==
    /\ wstate = "open"
    /\ Len(recs) < MaxRecs
    /\ \E w \in {IpmWriter_write([file |-> file, remaining_chars |-> remaining_chars],
                                  blocked, o, enc, <<>>)} :
          /\ file' = w.writer.file
          /\ remaining_chars' = w.writer.remaining_chars
          /\ recs' = IF w.ok THEN Append(recs, w.record) ELSE recs
          /\ wstate' = IF w.ok THEN "open" ELSE "raised"
    /\ UNCHANGED <<blocked, payload, tail, input, nwrites>>
    /\ UNCHANGED rvars
    /\ UNCHANGED cvars
    /\ UNCHANGED xvars

\* a record of another producer: VbsWriter.write(record) on the same file
ForeignWrite(b) ==
    /\ wstate = "open"
    /\ Len(recs) < MaxRecs
    /\ LET w == VbsWriter_write([file |-> file, remaining_chars |-> remaining_chars],
                                blocked, b)
       IN  /\ file' = w.file
           /\ remaining_chars' = w.remaining_chars
    /\ recs' = Append(recs, b)
    /\ UNCHANGED <<blocked, wstate, payload, tail, input, nwrites>>
    /\ UNCHANGED rvars
    /\ UNCHANGED cvars
    /\ UNCHANGED xvars

\* next(reader) for reader = IpmReader(file, encoding, blocked=blocked); out
\* keeps the outcome of each call that took a VBS record from the file
IpmNext ==
    /\ rstate = "iter"
    /\ \E res \in {IpmReader_next(file, blocked,
                                    [pos |-> pos, buffer |-> buffer,
                                     record_number |-> record_number,
                                     last_record |-> last_record], enc, <<>>)} :
          /\ pos' = res.reader.pos
          /\ buffer' = res.reader.buffer
          /\ record_number' = res.reader.record_number
          /\ last_record' = res.reader.last_record
          /\ out' = IF res.kind \in {"stop", "error"} THEN out
                    ELSE Append(out, [kind |-> res.kind, record |-> res.record])
          /\ rstate' = IF res.kind \in {"stop", "error"} THEN res.kind ELSE "iter"
          /\ err' = res.err
    /\ UNCHANGED wvars
    /\ UNCHANGED cvars
    /\ UNCHANGED xvars

\* the iterable handed to write_many raises when asked for its next record
\* (mci_ipm_encode: the source IpmReader meets a bad record): nothing is
\* written and the exception leaves the with block
IterableRaises ==
    /\ wstate = "open"
    /\ wstate' = "raised"
    /\ UNCHANGED <<file, remaining_chars, blocked, payload, recs, tail, input, nwrites>>
    /\ UNCHANGED rvars
    /\ UNCHANGED cvars
    /\ UNCHANGED xvars

\* the with block around the writer is left: at its end ("exited") or by the
\* exception of a write or of the iterable ("unwound"); __exit__ runs
Exit ==
    /\ wstate \in {"open", "raised"}
    /\ \E exc_type \in {IF wstate = "raised" THEN Some("Exception") ELSE None} :
       \E w \in {VbsWriter_exit([file |-> file, remaining_chars |-> remaining_chars],
                                blocked, exc_type)} :
          /\ file' = w.file
          /\ remaining_chars' = w.remaining_chars
          /\ wstate' = IF exc_type = None THEN "exited" ELSE "unwound"
    /\ UNCHANGED <<blocked, payload, recs, tail, input, nwrites>>
    /\ UNCHANGED rvars
    /\ UNCHANGED cvars
    /\ UNCHANGED xvars

NextIpm ==
    \/ \E o \in IpmObjs : IpmWrite(o)
    \/ \E b \in ForeignRecords : ForeignWrite(b)
    \/ Close
    \/ IterableRaises
    \/ Exit
    \/ ReaderOpen
    \/ IpmNext

SpecIpm == InitIpm /\ [][NextIpm]_vars

\* ------------------------------------------------------------------------
\* SpecMsg: a message is put together around its bitmap, handed to loads,
\* and the dictionary that loads returned is handed to dumps
\* ------------------------------------------------------------------------
\* the most data elements a message is given
MaxMsgFields == 2

\* the 16 bitmap bytes that have exactly the bits of the set on
BitmapBytes(bits) == [i \in 1..16 |-> BitsToByte([n \in 1..128 |-> n \in bits], i)]

\* the size of the bitmap in a message: "4s16s..." or "4s32s..."
BitmapSize(hex_bitmap) == IF hex_bitmap THEN 32 ELSE 16

\* the 16 bitmap bytes of the message m
MsgBitmap(m, hex_bitmap) ==
    IF hex_bitmap THEN unhexlify(SubSeq(m, 5, 36)).v ELSE SubSeq(m, 5, 20)

\* the bits 2..127 that the bitmap b has on
FieldBits(b) == {n \in 2..127 : (b[((n - 1) \div 8) + 1] \div BitWeight((n - 1) % 8)) % 2 = 1}

\* the bitmap b with the bit, which is off, turned on
BitmapWithBit(b, bit) ==
    [i \in 1..16 |-> IF i = ((bit - 1) \div 8) + 1 THEN b[i] + BitWeight((bit - 1) % 8) ELSE b[i]]

\* the message m with the bitmap b and the data after its data
MsgWithField(m, hex_bitmap, b, data) ==
    Take(m, 4) \o _dict_to_iso8583_bitmap(b, hex_bitmap)
        \o Drop(m, 4 + BitmapSize(hex_bitmap)) \o data

\* str.upper of the hex digits
UpperHex(h) == [i \in 1..Len(h) |-> IF h[i] >= 97 /\ h[i] <= 102 THEN h[i] - 32 ELSE h[i]]

\* the data elements offered, as the bit and the text of the field on the wire:
\* DE2 '03123', '00', ' 3123', '05123' (two characters short), '-1';
\* DE3 '123456', '23456' (one character short); DE5 (no entry in the configuration) '';
\* DE26 '0042', '+042', '' (no data at all), 'abcd';
\* DE48 '0100001003abc', '0100001' (six characters short), '0100001+03abc',
\* '0070001-07' and '0070001-08' (PDS lengths with a sign);
\* DE62 '0100001003abc', '0100002003def'; DE71 '12345678'; DE94 '03abc'
MsgFields ==
    {<<2, <<48, 51, 49, 50, 51>>>>, <<2, <<48, 48>>>>, <<2, <<32, 51, 49, 50, 51>>>>,
     <<2, <<48, 53, 49, 50, 51>>>>, <<2, <<45, 49>>>>,
     <<3, <<49, 50, 51, 52, 53, 54>>>>, <<3, <<50, 51, 52, 53, 54>>>>,
     <<5, <<>>>>,
     <<26, <<48, 48, 52, 50>>>>, <<26, <<43, 48, 52, 50>>>>, <<26, <<>>>>,
     <<26, <<97, 98, 99, 100>>>>,
     <<48, <<48, 49, 48, 48, 48, 48, 49, 48, 48, 51, 97, 98, 99>>>>,
     <<48, <<48, 49, 48, 48, 48, 48, 49>>>>,
     <<48, <<48, 49, 48, 48, 48, 48, 49, 43, 48, 51, 97, 98, 99>>>>,
     <<48, <<48, 48, 55, 48, 48, 48, 49, 45, 48, 55>>>>,
     <<48, <<48, 48, 55, 48, 48, 48, 49, 45, 48, 56>>>>,
     <<62, <<48, 49, 48, 48, 48, 48, 49, 48, 48, 51, 97, 98, 99>>>>,
     <<62, <<48, 49, 48, 48, 48, 48, 50, 48, 48, 51, 100, 101, 102>>>>,
     <<71, <<49, 50, 51, 52, 53, 54, 55, 56>>>>,
     <<94, <<48, 51, 97, 98, 99>>>>}

InitMsg ==
    /\ enc \in {"latin_1", "cp500"}
    /\ hexmode \in BOOLEAN
    /\ msg = encode(<<49, 49, 52, 52>>, enc).v \o _dict_to_iso8583_bitmap(BitmapBytes({1}), hexmode)
    /\ redumped = None
    /\ original = <<>>
    /\ caller_obj = <<>>
    /\ dumped = None
    /\ loaded = None
    /\ cstate = "msg"
    /\ blocked = FALSE
    /\ file = <<>>
    /\ remaining_chars = BLOCK_DATA
    /\ wstate = "none"
    /\ payload = <<>>
    /\ recs = <<>>
    /\ tail = <<>>
    /\ input = <<>>
    /\ nwrites = 0
    /\ InitReader
    /\ pds_fields = <<>>
    /\ pds_outputs = None
    /\ pds_parsed = None
    /\ icc_data = <<>>
    /\ icc_result = None
    /\ on_error = "ERROR"
    /\ bitmap16 = <<>>
    /\ bit_list = None
    /\ bitmap_back = None
    /\ table_id = <<>>
    /\ table_index = <<>>
    /\ param_config = <<>>
    /\ param_exc = ""
    /\ default_bit_config = bit_config
    /\ fstate = "none"

\* one more data element, after the ones the message has
AddField(bit, text) ==
    /\ cstate = "msg"
    /\ \E b \in {MsgBitmap(msg, hexmode)} :
          /\ \E bits \in {FieldBits(b)} :
                /\ \A n \in bits : n < bit
                /\ Cardinality(bits) < MaxMsgFields
          /\ msg' = MsgWithField(msg, hexmode, BitmapWithBit(b, bit), encode(text, enc).v)
    /\ UNCHANGED <<redumped, cstate>>
    /\ UNCHANGED <<wvars, rvars, fvars, pvars, gvars>>
    /\ UNCHANGED <<original, caller_obj, enc, hexmode, dumped, loaded>>

\* bit 1 of the bitmap turned off
ClearBit1 ==
    /\ cstate = "msg"
    /\ \E b \in {MsgBitmap(msg, hexmode)} :
          msg' = MsgWithField(msg, hexmode, [b EXCEPT ![1] = b[1] - 128], <<>>)
    /\ cstate' = "sealed"
    /\ UNCHANGED redumped
    /\ UNCHANGED <<wvars, rvars, fvars, pvars, gvars>>
    /\ UNCHANGED <<original, caller_obj, enc, hexmode, dumped, loaded>>

\* bit 128 of the bitmap turned on
SetBit128 ==
    /\ cstate = "msg"
    /\ \E b \in {MsgBitmap(msg, hexmode)} :
          msg' = MsgWithField(msg, hexmode, [b EXCEPT ![16] = b[16] + 1], <<>>)
    /\ cstate' = "sealed"
    /\ UNCHANGED redumped
    /\ UNCHANGED <<wvars, rvars, fvars, pvars, gvars>>
    /\ UNCHANGED <<original, caller_obj, enc, hexmode, dumped, loaded>>

\* a byte more than the bitmap announces
AddByte ==
    /\ cstate = "msg"
    /\ msg' = msg \o encode(<<32>>, enc).v
    /\ cstate' = "sealed"
    /\ UNCHANGED redumped
    /\ UNCHANGED <<wvars, rvars, fvars, pvars, gvars>>
    /\ UNCHANGED <<original, caller_obj, enc, hexmode, dumped, loaded>>

\* the message without its last byte
DropByte ==
    /\ cstate = "msg"
    /\ msg' = Take(msg, Len(msg) - 1)
    /\ cstate' = "sealed"
    /\ UNCHANGED redumped
    /\ UNCHANGED <<wvars, rvars, fvars, pvars, gvars>>
    /\ UNCHANGED <<original, caller_obj, enc, hexmode, dumped, loaded>>

\* the hex bitmap in capital letters
UpperBitmap ==
    /\ cstate = "msg"
    /\ hexmode
    /\ msg' = Take(msg, 4) \o UpperHex(SubSeq(msg, 5, 36)) \o Drop(msg, 36)
    /\ msg' # msg
    /\ cstate' = "sealed"
    /\ UNCHANGED redumped
    /\ UNCHANGED <<wvars, rvars, fvars, pvars, gvars>>
    /\ UNCHANGED <<original, caller_obj, enc, hexmode, dumped, loaded>>

\* a hex bitmap with a character that is no hexadecimal digit
SpoilBitmap ==
    /\ cstate = "msg"
    /\ hexmode
    /\ Len(msg) >= 36
    /\ \E i \in {5, 36} : msg' = [msg EXCEPT ![i] = 122]
    /\ cstate' = "sealed"
    /\ UNCHANGED redumped
    /\ UNCHANGED <<wvars, rvars, fvars, pvars, gvars>>
    /\ UNCHANGED <<original, caller_obj, enc, hexmode, dumped, loaded>>

\* loads(b, encoding, iso_config, hex_bitmap) of the message
LoadsMsg ==
    /\ cstate \in {"msg", "sealed"}
    /\ loaded' = Some(loads(msg, enc, bit_config, hexmode))
    /\ cstate' = "loaded"
    /\ UNCHANGED <<msg, redumped>>
    /\ UNCHANGED <<wvars, rvars, fvars, pvars, gvars>>
    /\ UNCHANGED <<original, caller_obj, enc, hexmode, dumped>>

\* dumps(loads(b)) with the same encoding, configuration and bitmap mode
DumpsLoaded ==
    /\ cstate = "loaded"
    /\ loaded[1].ok
    /\ \E r \in {dumps(loaded[1].v, enc, bit_config, hexmode)} :
          redumped' = Some([ok |-> r.ok, v |-> r.v, exc |-> r.exc, err |-> r.err])
    /\ cstate' = "redumped"
    /\ UNCHANGED msg
    /\ UNCHANGED <<wvars, rvars, fvars, pvars, gvars>>
    /\ UNCHANGED <<original, caller_obj, enc, hexmode, dumped, loaded>>

NextMsg ==
    \/ \E item \in MsgFields : AddField(item[1], item[2])
    \/ ClearBit1
    \/ SetBit128
    \/ AddByte
    \/ DropByte
    \/ UpperBitmap
    \/ SpoilBitmap
    \/ LoadsMsg
    \/ DumpsLoaded

SpecMsg == InitMsg /\ [][NextMsg]_vars

\* ------------------------------------------------------------------------
\* SpecPds: PDSxxxx entries are packed by _pds_to_de and every fragment is
\* parsed again by _pds_to_dict
\* ------------------------------------------------------------------------
\* the most PDS entries a map is given
MaxPds == 3

\* the 4-digit tags offered: '0001', '0002', '0020', '9999'
PdsTags == {<<48, 48, 48, 49>>, <<48, 48, 48, 50>>, <<48, 48, 50, 48>>, <<57, 57, 57, 57>>}

\* the values offered, none longer than 999 characters: '', 'abc', a value
\* that reads like a PDS item ('0002003xyz'), and 85, 900, 992, 993 and 999
\* times the same letter
PdsValues ==
    {<<>>, <<97, 98, 99>>, <<48, 48, 48, 50, 48, 48, 51, 120, 121, 122>>,
     Rep(42, 85), Rep(33, 900), Rep(97, 992), Rep(98, 993), Rep(99, 999)}

\* _pds_to_dict of every fragment in turn, the results merged by dict.update
RECURSIVE _pds_to_dict_fragments(_, _)
_pds_to_dict_fragment(outputs, return_values, parsed) ==
    IF ~parsed.ok THEN parsed
    ELSE _pds_to_dict_fragments(Tail(outputs), DictUpdate(return_values, parsed.v))

_pds_to_dict_fragments(outputs, return_values) ==
    IF outputs = <<>> THEN Return(return_values)
    ELSE _pds_to_dict_fragment(outputs, return_values, _pds_to_dict(Head(outputs)))

InitPds ==
    /\ pds_fields = EmptyDict
    /\ pds_outputs = None
    /\ pds_parsed = None
    /\ fstate = "build"
    /\ msg = <<>>
    /\ redumped = None
    /\ icc_data = <<>>
    /\ icc_result = None
    /\ on_error = "ERROR"
    /\ bitmap16 = <<>>
    /\ bit_list = None
    /\ bitmap_back = None
    /\ table_id = <<>>
    /\ table_index = <<>>
    /\ param_config = <<>>
    /\ param_exc = ""
    /\ default_bit_config = bit_config
    /\ original = <<>>
    /\ caller_obj = <<>>
    /\ enc = ""
    /\ hexmode = FALSE
    /\ dumped = None
    /\ loaded = None
    /\ cstate = "none"
    /\ blocked = FALSE
    /\ file = <<>>
    /\ remaining_chars = BLOCK_DATA
    /\ wstate = "none"
    /\ payload = <<>>
    /\ recs = <<>>
    /\ tail = <<>>
    /\ input = <<>>
    /\ nwrites = 0
    /\ InitReader

\* vals['PDS' + tag] = value
PdsSet(tag, value) ==
    /\ fstate = "build"
    /\ K_PDS(tag) \notin DOMAIN pds_fields
    /\ Cardinality(DOMAIN pds_fields) < MaxPds
    /\ pds_fields' = DictSet(pds_fields, K_PDS(tag), StrV(value))
    /\ UNCHANGED <<pds_outputs, pds_parsed, fstate>>
    /\ UNCHANGED <<ivars, bvars>>
    /\ UNCHANGED <<wvars, rvars, cvars, mvars, pvars, gvars>>

\* outs = _pds_to_de(vals)
PdsToDe ==
    /\ fstate = "build"
    /\ \E r \in {_pds_to_de(pds_fields)} :
          pds_outputs' = Some([ok |-> r.ok, v |-> r.v, exc |-> r.exc])
    /\ fstate' = "called"
    /\ UNCHANGED <<pds_fields, pds_parsed>>
    /\ UNCHANGED <<ivars, bvars>>
    /\ UNCHANGED <<wvars, rvars, cvars, mvars, pvars, gvars>>

\* _pds_to_dict of each fragment of outs
PdsToDict ==
    /\ fstate = "called"
    /\ pds_outputs[1].ok
    /\ \E r \in {_pds_to_dict_fragments(pds_outputs[1].v, EmptyDict)} :
          pds_parsed' = Some([ok |-> r.ok, v |-> r.v, exc |-> r.exc])
    /\ fstate' = "done"
    /\ UNCHANGED <<pds_fields, pds_outputs>>
    /\ UNCHANGED <<ivars, bvars>>
    /\ UNCHANGED <<wvars, rvars, cvars, mvars, pvars, gvars>>

NextPds ==
    \/ \E tag \in PdsTags, value \in PdsValues : PdsSet(tag, value)
    \/ PdsToDe
    \/ PdsToDict

SpecPds == InitPds /\ [][NextPds]_vars

\* ------------------------------------------------------------------------
\* SpecIcc: DE55 data is put together byte by byte and handed to _icc_to_dict
\* ------------------------------------------------------------------------
\* the most bytes the DE55 data is given
MaxIcc == 4

\* the bytes offered: the low values tag, tags 01 and 02 (also lengths 1 and
\* 2), data 41, and the two prefixes of two byte tags
IccBytes == {0, 1, 2, 65, 159, 95}

K_ICC_DATA == <<73, 67, 67, 95, 68, 65, 84, 65>>

\* "TAG" + field_tag_display.upper().decode()
K_TAG(field_tag) == <<84, 65, 71>> \o UpperHex(hexlify(field_tag))

TWO_BYTE_TAG_PREFIXES == {<<159>>, <<95>>}

RECURSIVE _icc_to_dict_loop(_, _, _)
\* the length byte and the data of a tag; struct.unpack(">B", b'') fails
\* when the length byte is not there, and the slice of the data is whatever
\* is left when the length goes past the end
_icc_to_dict_tag(field_data, field_pointer, return_values, field_tag) ==
    IF hexlify(field_tag) = <<48, 48>> THEN Return(return_values)
    ELSE IF PySlice(field_data, field_pointer, field_pointer + 1) = <<>>
    THEN Raise("struct.error")
    ELSE _icc_to_dict_loop(
             field_data, field_pointer + 1 + field_data[field_pointer + 1],
             DictSet(return_values, K_TAG(field_tag),
                     StrV(hexlify(PySlice(field_data, field_pointer + 1,
                                          field_pointer + field_data[field_pointer + 1] + 1)))))

\* the while loop of _icc_to_dict: a tag of one byte, or of two after 9f or 5f
_icc_to_dict_loop(field_data, field_pointer, return_values) ==
    IF ~(field_pointer < Len(field_data)) THEN Return(return_values)
    ELSE IF PySlice(field_data, field_pointer, field_pointer + 1) \in TWO_BYTE_TAG_PREFIXES
    THEN _icc_to_dict_tag(field_data, field_pointer + 2, return_values,
                          PySlice(field_data, field_pointer, field_pointer + 2))
    ELSE _icc_to_dict_tag(field_data, field_pointer + 1, return_values,
                          PySlice(field_data, field_pointer, field_pointer + 1))

\* _icc_to_dict(field_data); the function takes the data alone, the
\* configuration of the data element is not handed to it
_icc_to_dict(field_data) ==
    _icc_to_dict_loop(field_data, 0, DictSet(EmptyDict, K_ICC_DATA, StrV(hexlify(field_data))))

InitIcc ==
    /\ icc_data = <<>>
    /\ icc_result = None
    /\ on_error \in {"ERROR", "WARN"}
    /\ fstate = "build"
    /\ pds_fields = <<>>
    /\ pds_outputs = None
    /\ pds_parsed = None
    /\ msg = <<>>
    /\ redumped = None
    /\ bitmap16 = <<>>
    /\ bit_list = None
    /\ bitmap_back = None
    /\ table_id = <<>>
    /\ table_index = <<>>
    /\ param_config = <<>>
    /\ param_exc = ""
    /\ default_bit_config = bit_config
    /\ original = <<>>
    /\ caller_obj = <<>>
    /\ enc = ""
    /\ hexmode = FALSE
    /\ dumped = None
    /\ loaded = None
    /\ cstate = "none"
    /\ blocked = FALSE
    /\ file = <<>>
    /\ remaining_chars = BLOCK_DATA
    /\ wstate = "none"
    /\ payload = <<>>
    /\ recs = <<>>
    /\ tail = <<>>
    /\ input = <<>>
    /\ nwrites = 0
    /\ InitReader

\* one more byte of DE55 data
IccByte(b) ==
    /\ fstate = "build"
    /\ Len(icc_data) < MaxIcc
    /\ icc_data' = Append(icc_data, b)
    /\ UNCHANGED <<icc_result, on_error, fstate>>
    /\ UNCHANGED <<dvars, bvars>>
    /\ UNCHANGED <<wvars, rvars, cvars, mvars, pvars, gvars>>

\* return_values.update(_icc_to_dict(field_data)) of _iso8583_to_field, with
\* the policy in the field_processor_config of the data element
IccToDict ==
    /\ fstate = "build"
    /\ \E r \in {_icc_to_dict(icc_data)} :
          icc_result' = Some([ok |-> r.ok, v |-> r.v, exc |-> r.exc])
    /\ fstate' = "done"
    /\ UNCHANGED <<icc_data, on_error>>
    /\ UNCHANGED <<dvars, bvars>>
    /\ UNCHANGED <<wvars, rvars, cvars, mvars, pvars, gvars>>

NextIcc ==
    \/ \E b \in IccBytes : IccByte(b)
    \/ IccToDict

SpecIcc == InitIcc /\ [][NextIcc]_vars

\* ------------------------------------------------------------------------
\* SpecBits: a 16 byte bitmap goes through BitArray.tolist and back through
\* BitArray.fromlist; the repository holds two versions of BitArray.py and
\* either can be the one that is installed
\* ------------------------------------------------------------------------
\* the most bytes of the bitmap that are given a value other than 0
MaxSetBytes == 2

\* the values offered for a byte of the bitmap
BitmapByteValues == {1, 128, 255}

InitBits ==
    /\ bitmap16 = [i \in 1..16 |-> 0]
    /\ bit_list = None
    /\ bitmap_back = None
    /\ fstate = "build"
    /\ icc_data = <<>>
    /\ icc_result = None
    /\ on_error = "ERROR"
    /\ pds_fields = <<>>
    /\ pds_outputs = None
    /\ pds_parsed = None
    /\ msg = <<>>
    /\ redumped = None
    /\ table_id = <<>>
    /\ table_index = <<>>
    /\ param_config = <<>>
    /\ param_exc = ""
    /\ default_bit_config = bit_config
    /\ original = <<>>
    /\ caller_obj = <<>>
    /\ enc = ""
    /\ hexmode = FALSE
    /\ dumped = None
    /\ loaded = None
    /\ cstate = "none"
    /\ blocked = FALSE
    /\ file = <<>>
    /\ remaining_chars = BLOCK_DATA
    /\ wstate = "none"
    /\ payload = <<>>
    /\ recs = <<>>
    /\ tail = <<>>
    /\ input = <<>>
    /\ nwrites = 0
    /\ InitReader

\* byte i of the bitmap is given the value v
SetByte(i, v) ==
    /\ fstate = "build"
    /\ bitmap16[i] = 0
    /\ Cardinality({j \in 1..16 : bitmap16[j] # 0}) < MaxSetBytes
    /\ bitmap16' = [bitmap16 EXCEPT ![i] = v]
    /\ UNCHANGED <<bit_list, bitmap_back, fstate>>
    /\ UNCHANGED <<dvars, ivars>>
    /\ UNCHANGED <<wvars, rvars, cvars, mvars, pvars, gvars>>

\* BitArray().frombytes(b) then tolist()
ToList ==
    /\ fstate = "build"
    /\ bit_list' = Some(BitArray_tolist(bitmap16))
    /\ fstate' = "listed"
    /\ UNCHANGED <<bitmap16, bitmap_back>>
    /\ UNCHANGED <<dvars, ivars>>
    /\ UNCHANGED <<wvars, rvars, cvars, mvars, pvars, gvars>>

\* BitArray().fromlist(l) then tobytes(), with src/cardutil/BitArray.py
FromList ==
    /\ fstate = "listed"
    /\ bitmap_back' = Some(BitArray_fromlist(bit_list[1]))
    /\ fstate' = "done"
    /\ UNCHANGED <<bitmap16, bit_list>>
    /\ UNCHANGED <<dvars, ivars>>
    /\ UNCHANGED <<wvars, rvars, cvars, mvars, pvars, gvars>>

\* BitArray().fromlist(l) then tobytes(), with src/src/cardutil/BitArray.py
FromListToBytes ==
    /\ fstate = "listed"
    /\ bitmap_back' = Some(BitArray_fromlist_to_bytes(bit_list[1]))
    /\ fstate' = "done"
    /\ UNCHANGED <<bitmap16, bit_list>>
    /\ UNCHANGED <<dvars, ivars>>
    /\ UNCHANGED <<wvars, rvars, cvars, mvars, pvars, gvars>>

NextBits ==
    \/ \E i \in 1..16, v \in BitmapByteValues : SetByte(i, v)
    \/ ToList
    \/ FromList
    \/ FromListToBytes

SpecBits == InitBits /\ [][NextBits]_vars

\* ------------------------------------------------------------------------
\* SpecParam: a parameter extract is written record by record, with or
\* without the closing zero length, and an IpmParamReader is built on it
\* ------------------------------------------------------------------------
MaxParamRecs == 3

\* config.config['mci_parameter_tables']: table id -> field -> start, end
\* the table id 'IP0006T1'
T_IP0006T1 == <<73, 80, 48, 48, 48, 54, 84, 49>>

\* the table id 'IP0040T1'
T_IP0040T1 == <<73, 80, 48, 48, 52, 48, 84, 49>>

\* the table id 'IP0075T1'
T_IP0075T1 == <<73, 80, 48, 48, 55, 53, 84, 49>>

\* the table id 'IP0095T1'
T_IP0095T1 == <<73, 80, 48, 48, 57, 53, 84, 49>>

FIELDS_IP0006T1 ==
       ("card_program_id" :> [start |-> 19, end |-> 22])
    @@ ("data_element_id" :> [start |-> 22, end |-> 25])
    @@ ("data_element_name" :> [start |-> 25, end |-> 82])
    @@ ("data_element_format" :> [start |-> 82, end |-> 85])
    @@ ("data_element_minimum_length" :> [start |-> 85, end |-> 88])
    @@ ("data_element_mastercard_maximum_length" :> [start |-> 88, end |-> 91])
    @@ ("data_element_iso_maximum_length" :> [start |-> 91, end |-> 94])
    @@ ("de_lll_size" :> [start |-> 94, end |-> 95])
    @@ ("data_element_subfields" :> [start |-> 95, end |-> 97])

FIELDS_IP0040T1 ==
       ("issuer_account_range_low" :> [start |-> 19, end |-> 38])
    @@ ("gcms_product_id" :> [start |-> 38, end |-> 41])
    @@ ("issuer_account_range_high" :> [start |-> 41, end |-> 60])
    @@ ("card_program_identifier" :> [start |-> 60, end |-> 63])
    @@ ("issuer_card_program_identifier_priority_code" :> [start |-> 63, end |-> 65])
    @@ ("member_id" :> [start |-> 65, end |-> 76])
    @@ ("product_type_id" :> [start |-> 76, end |-> 77])
    @@ ("endpoint" :> [start |-> 77, end |-> 84])
    @@ ("card_country_alpha" :> [start |-> 84, end |-> 87])
    @@ ("card_country_numeric" :> [start |-> 87, end |-> 90])
    @@ ("region" :> [start |-> 90, end |-> 91])
    @@ ("product_class" :> [start |-> 91, end |-> 94])
    @@ ("transaction_routing_indicator" :> [start |-> 94, end |-> 95])
    @@ ("first_presentment_reassignment_switch" :> [start |-> 95, end |-> 96])
    @@ ("product_reassignment_switch" :> [start |-> 96, end |-> 97])
    @@ ("pwcb_opt_in_switch" :> [start |-> 97, end |-> 98])
    @@ ("licenced_product_id" :> [start |-> 98, end |-> 101])
    @@ ("mapping_service_ind" :> [start |-> 101, end |-> 102])
    @@ ("alm_participation_ind" :> [start |-> 102, end |-> 103])
    @@ ("alm_activation_date" :> [start |-> 103, end |-> 109])
    @@ ("cardholder_billing_currency_default" :> [start |-> 109, end |-> 112])
    @@ ("cardholder_billing_currency_exponent_default" :> [start |-> 112, end |-> 113])
    @@ ("cardholder_bill_primary_currency" :> [start |-> 113, end |-> 141])
    @@ ("chip_to_magnetic_conversion_service_indicator" :> [start |-> 141, end |-> 142])
    @@ ("floor_expiration_date" :> [start |-> 142, end |-> 148])
    @@ ("co_brand_participation_switch" :> [start |-> 148, end |-> 149])
    @@ ("spend_control_switch" :> [start |-> 149, end |-> 150])
    @@ ("merchant_cleansing_service_participation" :> [start |-> 150, end |-> 153])
    @@ ("merchant_cleansing_activation_date" :> [start |-> 153, end |-> 159])
    @@ ("paypass_enabled_indicator" :> [start |-> 159, end |-> 160])
    @@ ("regulated_rate_type_indicator" :> [start |-> 160, end |-> 161])
    @@ ("psn_route_indicator" :> [start |-> 161, end |-> 162])
    @@ ("cash_back_without_purchase_indicator" :> [start |-> 162, end |-> 163])
    @@ ("repower_reload_participation_indicator" :> [start |-> 164, end |-> 165])
    @@ ("moneysend_indicator" :> [start |-> 165, end |-> 166])
    @@ ("durban_regulated_rate_indicator" :> [start |-> 166, end |-> 167])
    @@ ("cash_access_only_participating_indicator" :> [start |-> 167, end |-> 168])
    @@ ("authentication_indicator" :> [start |-> 168, end |-> 169])

FIELDS_IP0075T1 ==
       ("card_acceptor_business_code_mcc" :> [start |-> 19, end |-> 24])
    @@ ("card_acceptor_business_cab_program" :> [start |-> 24, end |-> 28])
    @@ ("card_acceptor_business_cab_program_life_cycle_indicator" :> [start |-> 28, end |-> 29])
    @@ ("card_acceptor_business_cab_type" :> [start |-> 29, end |-> 30])
    @@ ("card_acceptor_business_cab_life_cycle_indicator" :> [start |-> 30, end |-> 31])

FIELDS_IP0095T1 ==
       ("card_program_identifier" :> [start |-> 19, end |-> 22])
    @@ ("business_service_arrangement_type" :> [start |-> 22, end |-> 23])
    @@ ("business_service_id_code" :> [start |-> 23, end |-> 29])
    @@ ("interchange_rate_designator_ird" :> [start |-> 29, end |-> 31])
    @@ ("card_acceptor_business_cab_program" :> [start |-> 31, end |-> 35])
    @@ ("life_cycle_indicator" :> [start |-> 35, end |-> 36])

MCI_PARAMETER_TABLES ==
       (T_IP0006T1 :> FIELDS_IP0006T1)
    @@ (T_IP0040T1 :> FIELDS_IP0040T1)
    @@ (T_IP0075T1 :> FIELDS_IP0075T1)
    @@ (T_IP0095T1 :> FIELDS_IP0095T1)

\* a table id that no configuration knows
T_BADTABLE == <<66, 65, 68, 84, 65, 66, 76, 69>>

\* a table id whose configuration has no field
T_IPEMPTY1 == <<73, 80, 69, 77, 80, 84, 89, 49>>

\* a caller's own configuration: one field of IP0075T1, no field of IPEMPTY1
OWN_PARAMETER_TABLES ==
       (T_IP0075T1 :> ("mcc" :> [start |-> 19, end |-> 24]))
    @@ (T_IPEMPTY1 :> [f \in {} |-> [start |-> 0, end |-> 0]])

\* the param_config arguments: none given, an empty dictionary, the caller's own
ParamConfigs == {None, Some([t \in {} |-> <<>>]), Some(OWN_PARAMETER_TABLES)}

\* the table_id arguments
TableIds == {T_IP0075T1, T_BADTABLE, T_IPEMPTY1}

\* '2014101414A' + 'IP0000T1' + table id + filler up to 243 + sub id: the
\* IP0000T1 record that lists a table under its 3 character sub id
IndexRecordText(table, sub_id) ==
    <<50, 48, 49, 52, 49, 48, 49, 52, 49, 52, 65>> \o <<73, 80, 48, 48, 48, 48, 84, 49>> \o table \o Rep(46, 216) \o sub_id

\* 'TRAILER RECORD IP0000T1  00000218'
TRAILER_TEXT == <<84, 82, 65, 73, 76, 69, 82, 32, 82, 69, 67, 79, 82, 68, 32, 73, 80, 48, 48, 48, 48, 84, 49, 32, 32, 48, 48, 48, 48, 48, 50, 49, 56>>

\* ' TRAILER RECORD IP0000T1': the words of the trailer, one column late
LATE_TRAILER_TEXT == <<32, 84, 82, 65, 73, 76, 69, 82, 32, 82, 69, 67, 79, 82, 68, 32, 73, 80, 48, 48, 48, 48, 84, 49>>

\* a row of the table with sub id '075': '20141014' + '075' + 8 columns + '5411A'
ROW_TEXT == <<50, 48, 49, 52, 49, 48, 49, 52, 48, 55, 53, 46, 46, 46, 46, 46, 46, 46, 46, 53, 52, 49, 49, 65>>

\* the texts of the records offered to the writer
ParamTexts ==
    { IndexRecordText(T_IP0075T1, <<48, 55, 53>>), TRAILER_TEXT, LATE_TRAILER_TEXT, ROW_TEXT }

\* 'IP0000T1', the key of the records that list the tables
IP0000T1_KEY == <<73, 80, 48, 48, 48, 48, 84, 49>>

\* 'TRAILER RECORD IP0000T1'
IP0000T1_TRAILER == <<84, 82, 65, 73, 76, 69, 82, 32, 82, 69, 67, 79, 82, 68, 32,
                      73, 80, 48, 48, 48, 48, 84, 49>>

\* a record no ascii reader decodes: b'\xe9TABLE'
UNDECODABLE_RECORD == <<233, 84, 65, 66, 76, 69>>

\* the records offered to the writer: the texts in the encoding of the
\* reader (ascii bytes are latin_1 bytes), and the record with the byte e9
ParamRecords(encoding) ==
    { encode(t, IF encoding = "cp500" THEN "cp500" ELSE "latin_1").v : t \in ParamTexts }
        \cup {UNDECODABLE_RECORD}

\* str.startswith(prefix)
startswith(s, prefix) == Take(s, Len(prefix)) = prefix

\* what IpmParamReader(...) comes to: the reader when ok, else the exception
\* (exc its class, err the MciIpmDataError when it is one)
ParamReader(ok, exc, err_, r, table_index_, encoding, config_) ==
    [ok |-> ok, exc |-> exc, err |-> err_, reader |-> r, table_index |-> table_index_,
     encoding |-> encoding, param_config |-> config_]

\* the index loop of IpmParamReader.__init__, from the next VBS record on
RECURSIVE IpmParamReader_init_loop(_, _, _, _, _, _)

\* the end of the loop body: break at the trailer, else the next record
IpmParamReader_init_trailer(f, blk, r, encoding, config_, table_index_, record) ==
    IF startswith(record, IP0000T1_TRAILER)
    THEN ParamReader(TRUE, "", None, r, table_index_, encoding, config_)
    ELSE IpmParamReader_init_loop(f, blk, r, encoding, config_, table_index_)

\* the loop body once the record is decoded: an IP0000T1 record adds
\* table_index[record[243:246]] = record[19:27]
IpmParamReader_init_decoded(f, blk, r, encoding, config_, table_index_, record) ==
    IF ~record.ok
    THEN ParamReader(FALSE, record.exc, None, r, table_index_, encoding, config_)
    ELSE IpmParamReader_init_trailer(
             f, blk, r, encoding, config_,
             IF PySlice(record.v, 11, 19) = IP0000T1_KEY
             THEN [k \in DOMAIN table_index_ \cup {PySlice(record.v, 243, 246)} |->
                      IF k = PySlice(record.v, 243, 246) THEN PySlice(record.v, 19, 27)
                      ELSE table_index_[k]]
             ELSE table_index_,
             record.v)

\* the loop body from the outcome of VbsReader.__next__: StopIteration ends
\* the loop with no trailer found, an MciIpmDataError goes to the caller
IpmParamReader_init_record(f, blk, encoding, config_, table_index_, vbs) ==
    IF vbs.kind = "stop"
    THEN ParamReader(FALSE, "MciIpmDataError",
                     Some(CardutilError("parameter file missing IP0000T1 trailer record",
                                        None, None, None)),
                     vbs.reader, table_index_, encoding, config_)
    ELSE IF vbs.kind = "error"
    THEN ParamReader(FALSE, "MciIpmDataError", vbs.err, vbs.reader, table_index_,
                     encoding, config_)
    ELSE IpmParamReader_init_decoded(f, blk, vbs.reader, encoding, config_, table_index_,
                                     decode(vbs.record, encoding))

IpmParamReader_init_loop(f, blk, r, encoding, config_, table_index_) ==
    IpmParamReader_init_record(f, blk, encoding, config_, table_index_,
                               VbsReader_next(f, blk, r))

\* IpmParamReader.__init__ once self.encoding and self.param_config are set:
\* the check of the table id, then the index loop
IpmParamReader_init_checked(f, blk, id, encoding, config_) ==
    IF id \notin DOMAIN config_ \/ DOMAIN config_[id] = {}
    THEN ParamReader(FALSE, "MciIpmDataError",
                     Some(CardutilError("Parameter config not available for table",
                                        None, None, None)),
                     VbsReader_init, <<>>, encoding, config_)
    ELSE IpmParamReader_init_loop(f, blk, VbsReader_init, encoding, config_, <<>>)

\* IpmParamReader(param_file, table_id, encoding, param_config, blocked=blk):
\* encoding "" and param_config None are the arguments left out; an empty
\* param_config is falsy, so the default configuration takes its place
IpmParamReader_init(f, blk, id, encoding, config_) ==
    IpmParamReader_init_checked(
        f, blk, id,
        IF encoding = "" THEN "latin_1" ELSE encoding,
        IF config_ = None \/ DOMAIN config_[1] = {} THEN MCI_PARAMETER_TABLES ELSE config_[1])

\* IpmParamReader._get_param_field for every field of the table:
\* record[start:end].decode(encoding)
ParamFields(record, fields, encoding) ==
    [field \in DOMAIN fields |->
        decode(PySlice(record, fields[field].start, fields[field].end), encoding)]

\* the record_dict of IpmParamReader.__next__, or the UnicodeDecodeError of a field
IpmParamReader_next_dict(r, decoded) ==
    IF \E field \in DOMAIN decoded : ~decoded[field].ok
    THEN [kind |-> "raise", reader |-> r, record |-> <<>>, err |-> None,
          exc |-> "UnicodeDecodeError"]
    ELSE [kind |-> "record", reader |-> r,
          record |-> [field \in DOMAIN decoded |-> decoded[field].v],
          err |-> None, exc |-> ""]

RECURSIVE IpmParamReader_next(_, _, _, _, _, _, _)

\* IpmParamReader.__next__ from the sub id record[8:11].decode(encoding) on
IpmParamReader_next_sub_id(f, blk, vbs, id, table_index_, encoding, config_, sub_id) ==
    IF ~sub_id.ok
    THEN [kind |-> "raise", reader |-> vbs.reader, record |-> <<>>, err |-> None,
          exc |-> sub_id.exc]
    ELSE IF sub_id.v \in DOMAIN table_index_ /\ table_index_[sub_id.v] = id
    THEN IpmParamReader_next_dict(vbs.reader, ParamFields(vbs.record, config_[id], encoding))
    ELSE IpmParamReader_next(f, blk, vbs.reader, id, table_index_, encoding, config_)

\* IpmParamReader.__next__ from the outcome of VbsReader.__next__
IpmParamReader_next_record(f, blk, vbs, id, table_index_, encoding, config_) ==
    IF vbs.kind = "stop"
    THEN [kind |-> "stop", reader |-> vbs.reader, record |-> <<>>, err |-> None, exc |-> ""]
    ELSE IF vbs.kind = "error"
    THEN [kind |-> "error", reader |-> vbs.reader, record |-> <<>>, err |-> vbs.err,
          exc |-> "MciIpmDataError"]
    ELSE IpmParamReader_next_sub_id(f, blk, vbs, id, table_index_, encoding, config_,
                                    decode(PySlice(vbs.record, 8, 11), encoding))

\* IpmParamReader.__next__: the next record of the requested table, as a
\* dictionary of its fields
IpmParamReader_next(f, blk, r, id, table_index_, encoding, config_) ==
    IpmParamReader_next_record(f, blk, VbsReader_next(f, blk, r), id, table_index_,
                               encoding, config_)

InitParam ==
    /\ blocked \in BOOLEAN
    /\ enc \in {"", "cp500", "ascii"}
    /\ file = VbsWriter_init.file
    /\ remaining_chars = VbsWriter_init.remaining_chars
    /\ wstate = "open"
    /\ payload = <<>>
    /\ recs = <<>>
    /\ tail = <<>>
    /\ input = <<>>
    /\ nwrites = 0
    /\ InitReader
    /\ original = <<>>
    /\ caller_obj = <<>>
    /\ hexmode = FALSE
    /\ dumped = None
    /\ loaded = None
    /\ cstate = "none"
    /\ InitExtra

\* VbsWriter(file, blocked=blocked).write(b) for a record of the extract
ParamWrite(b) ==
    /\ wstate = "open"
    /\ Len(recs) < MaxParamRecs
    /\ \E w \in {VbsWriter_write([file |-> file, remaining_chars |-> remaining_chars],
                                 blocked, b)} :
          /\ file' = w.file
          /\ remaining_chars' = w.remaining_chars
    /\ recs' = Append(recs, b)
    /\ UNCHANGED <<blocked, wstate, payload, tail, input, nwrites>>
    /\ UNCHANGED rvars
    /\ UNCHANGED cvars
    /\ UNCHANGED xvars

\* reader = IpmParamReader(file, id, encoding=enc, param_config=config_,
\* blocked=blocked) on the file as the writer left it, closed or not
ParamOpen(id, config_) ==
    /\ wstate \in {"open", "closed"}
    /\ rstate = "none"
    /\ \E res \in {IpmParamReader_init(file, blocked, id, enc, config_)} :
          /\ pos' = res.reader.pos
          /\ buffer' = res.reader.buffer
          /\ record_number' = res.reader.record_number
          /\ last_record' = res.reader.last_record
          /\ rstate' = IF res.ok THEN "iter" ELSE "error"
          /\ err' = res.err
          /\ table_id' = id
          /\ table_index' = res.table_index
          /\ param_config' = res.param_config
          /\ param_exc' = res.exc
    /\ wstate' = "source"
    /\ UNCHANGED out
    /\ UNCHANGED <<file, remaining_chars, blocked, payload, recs, tail, input, nwrites>>
    /\ UNCHANGED cvars
    /\ UNCHANGED <<mvars, fvars, gvars>>

\* next(reader); out keeps the dictionaries that came out
ParamNext ==
    /\ rstate = "iter"
    /\ \E res \in {IpmParamReader_next(file, blocked,
                                       [pos |-> pos, buffer |-> buffer,
                                        record_number |-> record_number,
                                        last_record |-> last_record],
                                       table_id, table_index,
                                       IF enc = "" THEN "latin_1" ELSE enc,
                                       param_config)} :
          /\ pos' = res.reader.pos
          /\ buffer' = res.reader.buffer
          /\ record_number' = res.reader.record_number
          /\ last_record' = res.reader.last_record
          /\ out' = IF res.kind = "record"
                    THEN Append(out, [kind |-> res.kind, record |-> res.record])
                    ELSE out
          /\ rstate' = IF res.kind = "record" THEN "iter"
                       ELSE IF res.kind = "stop" THEN "stop" ELSE "error"
          /\ err' = res.err
          /\ param_exc' = res.exc
    /\ UNCHANGED wvars
    /\ UNCHANGED cvars
    /\ UNCHANGED <<mvars, fvars, gvars, table_id, table_index, param_config>>

NextParam ==
    \/ \E b \in ParamRecords(enc) : ParamWrite(b)
    \/ Close
    \/ \E id \in TableIds : \E config_ \in ParamConfigs : ParamOpen(id, config_)
    \/ ParamNext

SpecParam == InitParam /\ [][NextParam]_vars

\* ------------------------------------------------------------------------
\* The module's default configuration: mci_ipm_encode's get_config, and
\* dumps and loads called without an iso_config
\* ------------------------------------------------------------------------
\* get_config(): every entry of config['bit_config'] whose field_processor
\* is 'PDS' loses that key (del on the entry itself); the dictionary worked
\* on is the one returned
get_config(config) ==
    [field \in DOMAIN config |->
        IF config[field].field_processor = "PDS"
        THEN [config[field] EXCEPT !.field_processor = ""]
        ELSE config[field]]

\* mci_ipm_encode(...) asks get_config() for the iso_config of its reader and
\* of its writer: config['bit_config'] is what get_config left
GetConfig ==
    /\ cstate \in {"dict", "dumped"}
    /\ default_bit_config' = get_config(default_bit_config)
    /\ UNCHANGED cvars
    /\ UNCHANGED <<wvars, rvars, mvars, fvars, pvars>>

\* message = dumps(R, encoding, hex_bitmap=...): with no iso_config the
\* configuration is config['bit_config'] as it is at the call
DefaultDumps ==
    /\ cstate = "dict"
    /\ \E r \in {dumps(caller_obj, enc, default_bit_config, hexmode)} :
          /\ dumped' = Some([ok |-> r.ok, v |-> r.v, exc |-> r.exc, err |-> r.err])
          /\ caller_obj' = r.message
    /\ cstate' = "dumped"
    /\ UNCHANGED <<original, enc, hexmode, loaded>>
    /\ UNCHANGED <<wvars, rvars, xvars>>

\* loads(message, encoding, hex_bitmap=...), with no iso_config
DefaultLoads ==
    /\ cstate = "dumped"
    /\ dumped[1].ok
    /\ loaded' = Some(loads(dumped[1].v, enc, default_bit_config, hexmode))
    /\ cstate' = "loaded"
    /\ UNCHANGED <<original, caller_obj, enc, hexmode, dumped>>
    /\ UNCHANGED <<wvars, rvars, xvars>>

NextCfg ==
    \/ \E value \in MtiValues : SetItem(K_MTI, value)
    \/ \E item \in FieldItems : SetItem(item[1], item[2])
    \/ GetConfig
    \/ DefaultDumps
    \/ DefaultLoads

SpecCfg == InitIso /\ [][NextCfg]_vars

\* ------------------------------------------------------------------------
\* SpecClose: a writer that is closed, and closed once more
\* ------------------------------------------------------------------------
\* io.BytesIO.write(b) at position p: the bytes take the place of what the
\* file holds from p on, and lengthen it where they go past its end
BytesIO_write(f, p, b) == Take(f, p) \o b \o Drop(f, p + Len(b))

\* VbsWriter.close() on a writer that close() has left at position 0 with a
\* full window: the zero length goes to position 0; when blocked, seek(0)
\* finalises first, and the pad bytes of the window follow the zero length
VbsWriter_close_again(w, blk) ==
    IF blk
    THEN [file |-> BytesIO_write(BytesIO_write(w.file, 0, pack_i(0)), 4, Pad(BLOCK_DATA - 4 + 2)),
          remaining_chars |-> BLOCK_DATA]
    ELSE [file |-> BytesIO_write(w.file, 0, pack_i(0)),
          remaining_chars |-> w.remaining_chars]

\* writer.close() a second time
CloseAgain ==
    /\ wstate = "closed"
    /\ \E w \in {VbsWriter_close_again([file |-> file, remaining_chars |-> remaining_chars],
                                       blocked)} :
          /\ file' = w.file
          /\ remaining_chars' = w.remaining_chars
    /\ wstate' = "closed_again"
    /\ UNCHANGED <<blocked, payload, recs, tail, input, nwrites>>
    /\ UNCHANGED rvars
    /\ UNCHANGED cvars
    /\ UNCHANGED xvars

NextClose ==
    \/ \E n \in RecLens : Write(n)
    \/ Close
    \/ CloseAgain

SpecClose == Init /\ [][NextClose]_vars

\* ------------------------------------------------------------------------
\* Properties
\* ------------------------------------------------------------------------
\* every record has a length the reader accepts as a record: 1..3000
AllValid(L) == \A i \in 1..Len(L) : Len(L[i]) >= 1 /\ Len(L[i]) <= MAX_RECORD_LENGTH

IsPrefix(a, b) == Len(a) <= Len(b) /\ a = SubSeq(b, 1, Len(a))

ReaderDone == rstate \in {"stop", "error"}

\* C1: after any sequence of Block1014.write calls and one finalise, the
\* sink length is a multiple of 1014, offsets 1012 and 1013 of every block
\* hold 0x40, and offsets 0..1011 hold the payload in order, the rest of
\* the last block being 0x40.
C1_BlockLayout ==
    wstate = "closed" =>
        /\ Len(file) % BLOCK_SIZE = 0
        /\ (Len(file) \div BLOCK_SIZE) * BLOCK_DATA >= Len(payload)
        /\ \A i \in 1..Len(file) :
              LET off == (i - 1) % BLOCK_SIZE
                  p == ((i - 1) \div BLOCK_SIZE) * BLOCK_DATA + off + 1
              IN  IF off < BLOCK_DATA /\ p <= Len(payload)
                  THEN file[i] = payload[p]
                  ELSE file[i] = PAD_CHAR

\* C1 witness: three writes, one filling the window exactly and one longer
\* than two windows, then the finalise
C1_Witness ==
    /\ wstate = "closed"
    /\ nwrites = 3
    /\ Len(payload) = 1 + (BLOCK_DATA - 1) + (2 * BLOCK_DATA + 1)
    /\ Len(file) = 4 * BLOCK_SIZE

\* C2: records of length 1..3000 written through a blocked VbsWriter and
\* closed are read back by a blocked VbsReader in the same order, and then
\* the iteration ends without error.
C2_BlockedRoundTrip ==
    (blocked /\ wstate = "closed" /\ AllValid(recs)) =>
        /\ rstate # "error"
        /\ IsPrefix(out, recs)
        /\ (rstate = "stop" => out = recs)

\* C2 witness: the header of the second record straddles the first window
\* and its 2000 byte payload crosses two more boundaries
C2_Witness ==
    /\ blocked /\ rstate = "stop" /\ out = recs
    /\ Len(recs) = 2 /\ Len(recs[1]) = 1006 /\ Len(recs[2]) = 2000

\* C3 (as claimed): for every list of records, empty and oversized records
\* included, vbs_bytes_to_list(vbs_list_to_bytes(L)) returns L.
C3_AnyListRoundTrip ==
    (~blocked /\ wstate = "closed" /\ ReaderDone) => (rstate = "stop" /\ out = recs)

\* C3 (amended): for every list of records of length 1..3000,
\* vbs_bytes_to_list(vbs_list_to_bytes(L)) returns L.
C3_ValidListRoundTrip ==
    (~blocked /\ wstate = "closed" /\ AllValid(recs)) =>
        /\ file = vbs_list_to_bytes(recs, FALSE)
        /\ rstate # "error"
        /\ IsPrefix(out, recs)
        /\ (rstate = "stop" => out = recs)

\* C3 witness: two records, one at the limit of 3000 bytes, read back
C3_Witness ==
    /\ ~blocked /\ rstate = "stop" /\ out = recs
    /\ Len(recs) = 2 /\ Len(recs[1]) = MAX_RECORD_LENGTH /\ Len(recs[2]) = 1

\* C4 (as claimed): unblock_1014(block_1014(S)) is byte for byte S.
C4_ExactRoundTrip ==
    (wstate = "unblocked" /\ file = block_1014(input)) =>
        (rstate = "stop" /\ out = <<input>>)

\* C4 (amended): unblock_1014(block_1014(S)) is S followed by 0x40 bytes up
\* to the next multiple of 1012, so it is S exactly when the length of S is
\* a multiple of 1012.
C4_PaddedRoundTrip ==
    (wstate = "unblocked" /\ file = block_1014(input)) =>
        /\ rstate = "stop"
        /\ out = << input \o Pad((BLOCK_DATA - (Len(input) % BLOCK_DATA)) % BLOCK_DATA) >>
        /\ (out = <<input>> <=> Len(input) % BLOCK_DATA = 0)

\* C4 witness: a stream one byte longer than a window went through both
C4_Witness ==
    /\ wstate = "unblocked" /\ file = block_1014(input) /\ rstate = "stop"
    /\ Len(input) = BLOCK_DATA + 1
    /\ Len(out[1]) = 2 * BLOCK_DATA

\* C5: the bytes of a closed blocked VbsWriter equal block_1014 applied to
\* the bytes of a closed unblocked VbsWriter for the same records.
C5_BlockersAgree ==
    (blocked /\ wstate = "closed") => file = block_1014(vbs_list_to_bytes(recs, FALSE))

\* C6: an unblocked stream of complete records that ends with fewer than 4
\* bytes where the next header would be yields every record in order and
\* then ends the iteration without error.
C6_MissingSentinel ==
    (wstate = "source" /\ ~blocked /\ Len(tail) < 4) =>
        /\ rstate # "error"
        /\ IsPrefix(out, recs)
        /\ (rstate = "stop" => (out = recs /\ err = None))

\* C6 witness: two records followed by three stray bytes, read to the end
C6_Witness ==
    /\ wstate = "source" /\ ~blocked /\ tail = <<0, 0, 0>>
    /\ rstate = "stop" /\ Len(recs) = 2 /\ out = recs

\* the tail is a header declaring 1..3000 bytes followed by fewer bytes
ShortTail(t) ==
    /\ Len(t) >= 4
    /\ unpack_i(SubSeq(t, 1, 4)) >= 1
    /\ unpack_i(SubSeq(t, 1, 4)) <= MAX_RECORD_LENGTH
    /\ Len(t) - 4 < unpack_i(SubSeq(t, 1, 4))

\* C7: a header declaring n in 1..3000 with fewer than n payload bytes left
\* makes the reader step raise a data error whose record number is the
\* number of records already yielded plus one and whose binary context is
\* the header followed by the payload bytes read; no short record is
\* yielded and the iteration does not end silently.
C7_ShortPayload ==
    (wstate = "source" /\ ShortTail(tail)) =>
        /\ rstate # "stop"
        /\ IsPrefix(out, recs)
        /\ (rstate = "error" =>
              /\ out = recs
              /\ err = Some([message |-> "Unable to read complete record",
                              record_number |-> Some(Len(recs) + 1),
                              binary_context_data |-> Some(tail),
                              ex |-> None]))

\* C7 witness: after two records, a header of 5 with 4 bytes behind it
C7_Witness ==
    /\ wstate = "source" /\ tail = pack_i(5) \o <<1, 2, 3, 4>>
    /\ Len(recs) = 2 /\ rstate = "error" /\ out = recs

\* C8: a stream whose first 4 bytes decode to a negative length raises a
\* framing error at record 1 whose binary context contains those 4 bytes.
C8_NegativeLengthContext ==
    (wstate = "source" /\ recs = <<>> /\ Len(tail) >= 4
        /\ unpack_i(SubSeq(tail, 1, 4)) < 0 /\ ReaderDone) =>
        /\ rstate = "error"
        /\ err # None
        /\ err[1].record_number = Some(1)
        /\ err[1].binary_context_data # None
        /\ \E k \in 0..(Len(err[1].binary_context_data[1]) - 4) :
              SubSeq(err[1].binary_context_data[1], k + 1, k + 4) = SubSeq(tail, 1, 4)

\* IpmReader has just wrapped a codec error: the last call took a VBS record
\* from the file and failed to decode it
CodecErrorRaised ==
    /\ rstate = "iter"
    /\ out # <<>>
    /\ out[Len(out)].kind = "codec_error"

\* C9 as stated: when the decode of the k-th VBS record of the file fails with
\* a codec data error, the error IpmReader raises has record number k, the raw
\* header and payload of the k-th record as binary context, and the codec
\* error as originating error
C9_CodecErrorRecordNumber ==
    CodecErrorRaised =>
        LET k == Len(out)
        IN  /\ err[1].record_number = Some(k)
            /\ err[1].binary_context_data = Some(pack_i(Len(recs[k])) \o recs[k])
            /\ err[1].ex = Some(loads(recs[k], enc, <<>>, FALSE).err[1])

\* the bit of a key 'DE<n>' with n in 2..127, or 0 for any other key
DeBit(key) ==
    IF \E bit \in 2..127 : key = K_DE(bit) THEN CHOOSE bit \in 2..127 : key = K_DE(bit) ELSE 0

IsPdsKey(key) ==
    /\ Len(key) = 7
    /\ PySlice(key, 0, 3) = <<80, 68, 83>>
    /\ \A i \in 4..7 : IsDigit(key[i])

\* the value a data element has after number formatting is normalised: an
\* int field holds the integer its value stands for
Normalised(key, value) ==
    LET bit == DeBit(key)
    IN  IF bit \in DOMAIN bit_config /\ bit_config[bit].field_python_type \in {"int", "long"}
           /\ PyInt(value).ok
        THEN IntV(PyInt(value).v)
        ELSE value

\* a string value that fills its field exactly and can be encoded
FitsField(value, cfg, encoding) ==
    /\ value.t = "str"
    /\ encode(value.v, encoding).ok
    /\ CASE cfg.field_type = "FIXED" -> Len(value.v) = cfg.field_length
         [] cfg.field_type = "LLVAR" -> Len(value.v) \in 1..99
         [] cfg.field_type = "LLLVAR" -> Len(value.v) \in 1..999

\* an integer, or a string int() accepts, whose zero filled form fills the field
FitsIntField(value, cfg) ==
    /\ value.t \in {"int", "str"}
    /\ PyInt(value).ok
    /\ cfg.field_type = "FIXED"
    /\ Len(FormatInt(PyInt(value).v, cfg.field_length)) = cfg.field_length

PdsSlots == {bit \in DOMAIN bit_config : bit_config[bit].field_processor = "PDS"}

\* the dictionaries the round trip law is about after its correction
Canonical(R, encoding) ==
    /\ K_MTI \in DOMAIN R
    /\ R[K_MTI].t = "str" /\ Len(R[K_MTI].v) = 4 /\ encode(R[K_MTI].v, encoding).ok
    /\ \A key \in DOMAIN R \ {K_MTI} :
          \/ /\ DeBit(key) \in DOMAIN bit_config \ PdsSlots
             /\ IF bit_config[DeBit(key)].field_python_type \in {"int", "long"}
                THEN FitsIntField(R[key], bit_config[DeBit(key)])
                ELSE FitsField(R[key], bit_config[DeBit(key)], encoding)
          \/ /\ IsPdsKey(key)
             /\ R[key].t = "str"
             /\ Len(R[key].v) <= 992
             /\ encode(R[key].v, encoding).ok
    /\ Len(_pds_to_de(R).v) <= Cardinality(PdsSlots)

C11_InverseRoundTrip ==
    (cstate = "redumped" /\ loaded[1].ok) => (redumped[1].ok /\ redumped[1].v = msg)

\* the size the bitmap announces for the data: for each bit of the list the
\* length prefix plus the declared length (the configured length of a FIXED
\* field); nothing when a bit has no configuration or a prefix is not a count
RECURSIVE DeclaredSize(_, _, _, _)
DeclaredSize(bits, data, encoding, pointer) ==
    IF bits = <<>> THEN Some(pointer)
    ELSE IF Head(bits) \notin DOMAIN bit_config THEN None
    ELSE LET cfg == bit_config[Head(bits)]
             length_size == _get_field_length(cfg)
         IN  IF length_size = 0
             THEN DeclaredSize(Tail(bits), data, encoding, pointer + cfg.field_length)
             ELSE IF pointer + length_size > Len(data) THEN None
             ELSE LET n == ParseInt(decode(SubSeq(data, pointer + 1, pointer + length_size),
                                           encoding).v)
                  IN  IF ~n.ok \/ n.v < 0 THEN None
                      ELSE DeclaredSize(Tail(bits), data, encoding, pointer + length_size + n.v)

\* loads was called on a message that has at least its MTI and its bitmap
LoadsCalled == cstate \in {"loaded", "redumped"} /\ Len(msg) >= 4 + BitmapSize(hexmode)

\* the size that the bitmap of the message announces (optional)
MsgDeclaredSize ==
    DeclaredSize(SortedInts(FieldBits(MsgBitmap(msg, hexmode))),
                 Drop(msg, 4 + BitmapSize(hexmode)), enc, 0)

\* C12: when the size of the fields that the bitmap selects (length prefix
\* plus declared length of each set bit 2..127) differs from the number of
\* bytes after the bitmap, loads returns no dictionary: it raises a data
\* error that carries the whole message as binary context.
C12_LengthMismatch ==
    (/\ LoadsCalled
     /\ MsgDeclaredSize # None
     /\ MsgDeclaredSize # Some(Len(msg) - 4 - BitmapSize(hexmode)))
        => /\ ~loaded[1].ok
           /\ loaded[1].exc = "Iso8583DataError"
           /\ loaded[1].err[1].binary_context_data = Some(msg)

\* C13: when the bitmap has a bit 2..127 set for which the configuration has
\* no entry, loads fails with a data error and with no other failure.
C13_MissingBitConfig ==
    (/\ LoadsCalled
     /\ \E n \in FieldBits(MsgBitmap(msg, hexmode)) : n \notin DOMAIN bit_config)
        => /\ ~loaded[1].ok
           /\ loaded[1].exc = "Iso8583DataError"

\* the keys 'DE2' .. 'DE127'
DE_KEYS == [n \in 2..127 |-> K_DE(n)]

\* the number of bytes dumps wrote for the MTI of the dictionary
MtiSize(R) ==
    IF K_MTI \in DOMAIN R /\ R[K_MTI].t = "str" THEN Len(R[K_MTI].v) ELSE 0

\* the bits 2..127 that are on in the bitmap of the bytes that dumps returned
DumpedBits ==
    LET size == MtiSize(caller_obj)
        raw == SubSeq(dumped[1].v, size + 1, size + BitmapSize(hexmode))
        b == IF hexmode THEN unhexlify(raw).v ELSE raw
    IN  IF Len(b) = 16 THEN FieldBits(b) ELSE {}

\* the value is an empty string or None, or the dictionary has no such key
EmptyValue(value) == value = NoneV \/ value = StrV(<<>>)

\* the value is the integer 0, a non-zero integer or a string with characters
ZeroOrNonEmpty(value) ==
    \/ value.t = "int"
    \/ value.t = "str" /\ value.v # <<>>

\* the bits n for which the dictionary that loads returned holds DE<n>
LoadedBits == {n \in 2..127 : DE_KEYS[n] \in DOMAIN loaded[1].v}

\* the bits of the set are the bits of the data elements of R that have the
\* integer 0 or a non-empty value, and none has an empty string or None
ExactlyPresent(bits, R) ==
    \A n \in 2..127 :
        /\ EmptyValue(DictGet(R, DE_KEYS[n])) => n \notin bits
        /\ ZeroOrNonEmpty(DictGet(R, DE_KEYS[n])) => n \in bits

PdsValuesFit == \A key \in DOMAIN pds_fields : Len(pds_fields[key].v) <= 999

\* C15: for PDS entries whose values have at most 999 characters each, every
\* fragment that _pds_to_de builds has at most 999 characters.
C15_FragmentSize ==
    (fstate \in {"called", "done"} /\ PdsValuesFit /\ pds_outputs[1].ok)
        => \A i \in 1..Len(pds_outputs[1].v) : Len(pds_outputs[1].v[i]) <= 999

\* C16: PDS round trip. For a map from 4-digit tags to strings of at most 999
\* characters, _pds_to_de succeeds and _pds_to_dict of every fragment, merged,
\* is the map again.
C16_PdsRoundTrip ==
    /\ (fstate \in {"called", "done"} /\ PdsValuesFit) => pds_outputs[1].ok
    /\ (fstate = "done" /\ PdsValuesFit)
          => (pds_parsed[1].ok /\ pds_parsed[1].v = pds_fields)

\* a map that needs several fragments, one value of 999 characters and an
\* empty one among them, went through both functions
C16_Witness ==
    /\ fstate = "done"
    /\ Len(pds_outputs[1].v) >= 2
    /\ \E key \in DOMAIN pds_fields : Len(pds_fields[key].v) = 999
    /\ \E key \in DOMAIN pds_fields : pds_fields[key].v = <<>>
    /\ pds_parsed[1].ok

\* the tags of the DE55 data that are there whole, from the pointer p on, and
\* whether the data is cut: it ends inside a tag, before the length byte of a
\* tag, or before the end of the data that the length byte declares
RECURSIVE IccWhole(_, _, _)
IccWhole(data, p, tags) ==
    IF p >= Len(data) THEN [tags |-> tags, cut |-> FALSE]
    ELSE LET size == IF data[p + 1] \in {159, 95} THEN 2 ELSE 1
         IN  IF p + size > Len(data) THEN [tags |-> tags, cut |-> TRUE]
             ELSE IF size = 1 /\ data[p + 1] = 0 THEN [tags |-> tags, cut |-> FALSE]
             ELSE IF p + size + 1 > Len(data) THEN [tags |-> tags, cut |-> TRUE]
             ELSE IF p + size + 1 + data[p + size + 1] > Len(data)
             THEN [tags |-> tags, cut |-> TRUE]
             ELSE IccWhole(data, p + size + 1 + data[p + size + 1],
                           DictSet(tags, K_TAG(SubSeq(data, p + 1, p + size)),
                                   StrV(hexlify(SubSeq(data, p + size + 2,
                                                       p + size + 1 + data[p + size + 1])))))

\* C17: when the DE55 data ends in the middle of a tag, lacks a length byte or
\* declares a length past its end, the configured policy decides: under
\* on_error=ERROR the parsing fails with a data error; under on_error=WARN it
\* stops without raising and the result holds ICC_DATA (all of the data in
\* hex) and the tags that are there whole, the cut tag not among them.
C17_IccErrorPolicy ==
    LET whole == IccWhole(icc_data, 0, DictSet(EmptyDict, K_ICC_DATA, StrV(hexlify(icc_data))))
    IN  (fstate = "done" /\ icc_result # None /\ whole.cut)
            => IF on_error = "ERROR"
               THEN ~icc_result[1].ok /\ icc_result[1].exc = "Iso8583DataError"
               ELSE icc_result[1].ok /\ icc_result[1].v = whole.tags

\* bit k (0 the most significant) of the byte v
ByteBit(v, k) == (v \div BitWeight(k)) % 2 = 1

\* C18: for every bitmap of 16 bytes, leading 0x00 bytes and the all-zero
\* bitmap included, tolist gives 128 booleans, the most significant bit of
\* each byte first, and fromlist of that list followed by tobytes gives the
\* same 16 bytes.
C18_BitmapRoundTrip ==
    /\ fstate \in {"listed", "done"} =>
          /\ Len(bit_list[1]) = 128
          /\ \A i \in 1..16 : \A k \in 0..7 :
                bit_list[1][8 * (i - 1) + k + 1] = ByteBit(bitmap16[i], k)
    /\ fstate = "done" => bitmap_back[1] = bitmap16

\* the VBS stream of the records in rs: each behind its 4 byte length
RECURSIVE VbsStream(_)
VbsStream(rs) ==
    IF rs = <<>> THEN <<>> ELSE pack_i(Len(Head(rs))) \o Head(rs) \o VbsStream(Tail(rs))

\* the first 1012 bytes of every whole 1014 byte block of f
BlockPayloads(f) ==
    [i \in 1..((Len(f) \div BLOCK_SIZE) * BLOCK_DATA) |->
        f[((i - 1) \div BLOCK_DATA) * BLOCK_SIZE + ((i - 1) % BLOCK_DATA) + 1]]

\* the writer was closed by hand or its with block was left, either way
WriterLeft == wstate \in {"closed", "exited", "unwound"}

ParamReaderBuilt == wstate = "source" /\ rstate # "none" /\ table_id # <<>>

\* the bytes of 'TRAILER RECORD IP0000T1' in the encoding of the reader
TrailerBytes ==
    encode(IP0000T1_TRAILER, IF enc = "cp500" THEN "cp500" ELSE "latin_1").v

\* no record of the stream begins with the trailer's words
NoTrailerRecord == \A i \in 1..Len(recs) : ~startswith(recs[i], TrailerBytes)

\* C20: building an IpmParamReader fails with a data error (MciIpmDataError)
\* and no record ever comes out of it, (a) when the table id has no entry in
\* the parameter configuration, and (b) when the stream ends, by its zero
\* length or by the end of the data, with no record that begins with
\* 'TRAILER RECORD IP0000T1', however many IP0000T1 records came before
C20_ParamReaderFails ==
    (ParamReaderBuilt /\ (table_id \notin DOMAIN param_config \/ NoTrailerRecord)) =>
        /\ rstate = "error"
        /\ param_exc = "MciIpmDataError"
        /\ err # None
        /\ out = <<>>

\* every 1014 byte block of f is whole and ends with 0x40 0x40
WellBlocked(f) ==
    /\ Len(f) % BLOCK_SIZE = 0
    /\ \A k \in 1..(Len(f) \div BLOCK_SIZE) :
          f[k * BLOCK_SIZE - 1] = PAD_CHAR /\ f[k * BLOCK_SIZE] = PAD_CHAR

\* C21: the one-shot unblock_1014 raises a data error for every input whose
\* length is not a multiple of 1014 and for every input with a block that
\* does not end with 0x40 0x40; it completes only when every block is whole
\* and closed, and its output is then the first 1012 bytes of each block
C21_UnblockRejects ==
    wstate = "unblocked" =>
        /\ (rstate = "error") <=> ~WellBlocked(file)
        /\ rstate = "error" => err # None
        /\ rstate # "error" =>
              /\ rstate = "stop"
              /\ err = None
              /\ out = <<BlockPayloads(file)>>

\* C21 witness: a file of two blocks or more, of the right length, whose
\* first block is not closed by 0x40 0x40, was rejected
C21_Witness ==
    /\ wstate = "unblocked"
    /\ rstate = "error"
    /\ Len(file) >= 2 * BLOCK_SIZE
    /\ Len(file) % BLOCK_SIZE = 0
    /\ file[BLOCK_SIZE - 1] # PAD_CHAR

\* the 16 bitmap bytes of the bytes that dumps returned
DumpedBitmap ==
    LET size == MtiSize(caller_obj)
        raw == SubSeq(dumped[1].v, size + 1, size + BitmapSize(hexmode))
    IN  IF hexmode THEN unhexlify(raw).v ELSE raw

\* what follows the MTI and the bitmap in the bytes that dumps returned
DumpedPayload ==
    Drop(dumped[1].v, MtiSize(caller_obj) + BitmapSize(hexmode))

\* the encoded fields of the data elements of the set, lowest bit first
RECURSIVE FieldsAscending(_, _)
FieldsAscending(bits, R) ==
    IF bits = {} THEN <<>>
    ELSE LET n == CHOOSE m \in bits : \A k \in bits : m <= k
         IN  _field_to_iso8583(bit_config[n], DictGet(R, K_DE(n)),
                               IF enc = "" THEN "latin_1" ELSE enc).v
                 \o FieldsAscending(bits \ {n}, R)

\* C22: in every message that dumps produced, bitmap bit 1 is on, bit n of
\* 2..127 is on exactly when the payload holds an encoded field for DE<n>,
\* and the payload is these encoded fields in strictly ascending order of
\* bit, whatever the order in which the keys were put into the dictionary;
\* so bit 1 is on whenever a bit of 65..127 is on
C22_BitmapAndOrder ==
    (cstate \in {"dumped", "loaded"} /\ dumped[1].ok) =>
        \E b \in {DumpedBitmap} :
            /\ Len(b) = 16
            /\ b[1] >= 128
            /\ b[16] % 2 = 0
            /\ \E bits \in {FieldBits(b)} :
                  /\ bits = {n \in 2..127 : ZeroOrNonEmpty(DictGet(caller_obj, DE_KEYS[n]))}
                  /\ DumpedPayload = FieldsAscending(bits, caller_obj)

\* C22 witness: a message with a field below bit 65 and a field above it,
\* the higher one put into the dictionary first
C22_Witness ==
    /\ cstate = "dumped"
    /\ dumped[1].ok
    /\ FieldBits(DumpedBitmap) = {2, 94}
    /\ DumpedBitmap[1] >= 128

\* the bits of the variable-length data elements that dumps wrote
VarBits(bits) == {n \in bits : _get_field_length(bit_config[n]) > 0}

\* the field is a prefix of exactly size decimal digits, then the value
PrefixedField(field, size, value, encoding) ==
    /\ Len(field) = size + Len(value)
    /\ \A i \in 1..size : i <= Len(field) /\ IsDigit(decode(<<field[i]>>, encoding).v[1])
    /\ Drop(field, size) = encode(value, encoding).v

\* the decoder takes the whole field and gives the value back (a PDS data
\* element whose text is no PDS data is left to the PDS parser)
RecoveredField(n, r, field, value) ==
    /\ r.ok \/ bit_config[n].field_processor = "PDS"
    /\ r.ok => (r.v.increment = Len(field) /\ r.v.values[DE_KEYS[n]] = value)

\* C23: every value that dumps encodes into a variable-length field goes out
\* as exactly 2 (LLVAR) or 3 (LLLVAR) decimal digits followed by the value,
\* whatever its length, and the decoder, which reads 2 or 3 prefix
\* characters, gives the same value back
C23_FixedWidthPrefix ==
    (cstate \in {"dumped", "loaded"} /\ dumped[1].ok) =>
        \E encoding \in {IF enc = "" THEN "latin_1" ELSE enc} :
            \A n \in VarBits(DumpedBits) :
                \E value \in {DictGet(caller_obj, DE_KEYS[n])} :
                \E field \in {_field_to_iso8583(bit_config[n], value, encoding).v} :
                    /\ PrefixedField(field, _get_field_length(bit_config[n]), value.v, encoding)
                    /\ RecoveredField(n, _iso8583_to_field(n, bit_config[n], field, encoding),
                                      field, value)

\* ------------------------------------------------------------------------
\* C24: whenever loads cannot split its input into MTI, bitmap and remainder
\* (the input is shorter than MTI plus bitmap, or, with a hex bitmap, the 32
\* bitmap characters are not hexadecimal), the call ends with a data error
\* that carries the whole input as its binary context
\* ------------------------------------------------------------------------
SplitFails(message, hex_bitmap) ==
    \/ Len(message) < 4 + (IF hex_bitmap THEN 32 ELSE 16)
    \/ /\ hex_bitmap
       /\ \E i \in 5..36 : ~IsHexDigit(message[i])

C24_SplitFailureIsDataError ==
    (cstate = "loaded" /\ SplitFails(msg, hexmode)) =>
        /\ ~loaded[1].ok
        /\ loaded[1].exc = "Iso8583DataError"
        /\ loaded[1].err[1].binary_context_data = Some(msg)

\* ------------------------------------------------------------------------
\* C25: dumps leaves the dictionary it was given as it was: after the call
\* the caller's dictionary has the keys and values it had before, also when
\* it holds PDSxxxx keys
\* ------------------------------------------------------------------------
C25_DumpsLeavesDictionary ==
    cstate \in {"dumped", "loaded"} => caller_obj = original

\* ------------------------------------------------------------------------
\* C26: no operation edits the module's default bit configuration in place:
\* config['bit_config'] stays as it was at import, and marks the same data
\* elements with the field_processor PDS, also after mci_ipm_encode asked
\* get_config for its configuration
\* ------------------------------------------------------------------------
PdsElements(config) == {field \in DOMAIN config : config[field].field_processor = "PDS"}

C26_DefaultConfigIntact ==
    /\ default_bit_config = bit_config
    /\ PdsElements(default_bit_config) = {48, 62}

\* ------------------------------------------------------------------------
\* C27: the PDS sub-parsing of a data element comes to an end for every
\* input: loads of a message never stays in the loop of _pds_to_dict, also
\* when the three length characters of an item hold a sign
\* ------------------------------------------------------------------------
C27_PdsParsingTerminates ==
    cstate = "loaded" => loaded[1].exc # "NonTermination"

\* ------------------------------------------------------------------------
\* C28: while loads decodes a message the cursor only moves forward: for
\* every field that _iso8583_to_field accepts, the increment it returns is
\* at least the size of the field's length prefix, whatever the prefix holds
\* that int() accepts (a sign, a space), so no field begins inside the
\* bytes of the field before it
\* ------------------------------------------------------------------------
\* the first data element of the message: its bit and the outcome of
\* _iso8583_to_field on the message data
FirstBit(message, hex_bitmap) ==
    LET bits == FieldBits(MsgBitmap(message, hex_bitmap))
    IN  CHOOSE n \in bits : \A m \in bits : n <= m

FirstField(message, hex_bitmap, encoding) ==
    _iso8583_to_field(FirstBit(message, hex_bitmap),
                      bit_config[FirstBit(message, hex_bitmap)],
                      Drop(message, 4 + BitmapSize(hex_bitmap)), encoding)

HasFirstField(message, hex_bitmap) ==
    /\ ~SplitFails(message, hex_bitmap)
    /\ FieldBits(MsgBitmap(message, hex_bitmap)) # {}
    /\ FirstBit(message, hex_bitmap) \in DOMAIN bit_config

C28_CursorAdvances ==
    (cstate = "loaded" /\ HasFirstField(msg, hexmode)) =>
        \E field \in {FirstField(msg, hexmode, enc)} :
            field.ok =>
                field.v.increment >= _get_field_length(bit_config[FirstBit(msg, hexmode)])

\* a message that loads although its second field begins inside the first
C28_Overlap ==
    /\ cstate = "loaded"
    /\ loaded[1].ok
    /\ HasFirstField(msg, hexmode)
    /\ FirstField(msg, hexmode, enc).ok
    /\ FirstField(msg, hexmode, enc).v.increment < 2
    /\ DOMAIN loaded[1].v = {K_MTI, K_DE(2), K_DE(3)}

\* ------------------------------------------------------------------------
\* C29: the end of a VbsReader is final: after a step that ended the
\* iteration (the zero length, or fewer than 4 header bytes) or raised a
\* framing error, no later step yields a record, whatever bytes follow
\* ------------------------------------------------------------------------
C29_EndIsFinal == rstate # "resumed"

\* ------------------------------------------------------------------------
\* C30: closing a writer a second time leaves the output as the first close
\* left it: the same length and the same byte at every position, unblocked
\* and blocked
\* ------------------------------------------------------------------------
C30_SecondCloseKeepsOutput ==
    [][(wstate = "closed" /\ wstate' = "closed_again") => file' = file]_vars

\* the part of C30 that the code keeps: the length of the output
C30_SecondCloseKeepsLength ==
    [][(wstate = "closed" /\ wstate' = "closed_again") => Len(file') = Len(file)]_vars

====
